---- MODULE Spec2Model ----
(***************************************************************************)
(* A model of gonoto (src/main.go, seekBuffer in src/unnamed/part_001):    *)
(* the chunk encoder (generateChunks / writeChunk) with the decoder of the *)
(* generated otc.go and its OTC() under concurrent callers, generateFont on *)
(* a pooled seekBuffer, the selector (appendMatchingFonts), and the         *)
(* classification tasks, the composer and the buffer pool of generateFonts. *)
(***************************************************************************)
EXTENDS Integers, Sequences, FiniteSets, TLC

VARIABLES
    \* ---- generateChunks / writeChunk / generated package ----
    pc,               \* position of the encoder
    data,             \* generateChunks' data argument
    piped,            \* history: every byte written to the pipe (pw)
    stream,           \* bytes of the pipe not yet read (pr)
    limit,            \* io.LimitReader: bytes the current chunk may still read
    idx,              \* generateChunks' loop variable i
    buf,              \* writeChunk's var buf [4096]byte
    comma,            \* writeChunk's comma
    empty,            \* writeChunk's empty
    files,            \* chunk files on disk: index -> word literals written
    counts,           \* history: compressed bytes read into each chunk file
    chunkVars,        \* generateChunks' chunkVars
    manifest,         \* chunk.go: the chunk list and decompressedSize literal
    otcData,          \* OTC()'s result in the generated package
    \* ---- generateFont on a pooled buffer ----
    sb,               \* the seekBuffer: backing array arr (cap = Len(arr)), len, pos
    fresh,            \* history: a new seekBuffer{} given the same calls since Reset
    ops,              \* calls otcmerge.Merge has made on the buffer
    pkg,              \* packages this buffer has served
    \* ---- appendMatchingFonts ----
    descriptions,     \* the candidates of one (family, language) group
    target,           \* the target weight, hDensity, vDensity, style
    out,              \* the list the match is appended to
    \* ---- generateFonts ----
    zip,              \* z.File: the names of the archive's entries
    finished,         \* entries whose classification task has returned
    fontDescriptions, \* family -> language -> descriptors, in insertion order
    languageSet,      \* languageSet
    fontData,         \* fontData: name -> bytes read
    egErr,            \* the errgroup's first error (<<>> when nil)
    languages,        \* the sorted languages
    sourceFonts,      \* package -> sourceFonts built by its generation task
    \* ---- one classification task on its own ----
    parts,            \* history: the tokens the entry's name was put together from
    \* ---- the buffer pool and the generation tasks ----
    cpus,             \* runtime.NumCPU()
    bufs,             \* the pool goroutine's bufs
    task,             \* package -> position of its generation task
    holds,            \* package -> the buffer its task holds (0 when none)
    genErr,           \* the second errgroup's first error (0 when nil)
    outputs,          \* the packages whose files generateFont has written to outputDir
    \* ---- OTC() of a generated package ----
    pkgChunks,        \* the package's var chunks
    once,             \* initOnce: "new", "running" or "done"
    callers,          \* caller -> position in OTC()
    returned,         \* caller -> the slice OTC() returned to it
    decoded           \* history: times the function given to otcOnce.Do has run

chunkState2 == <<data, piped, stream, limit, idx, buf, comma, empty, files, counts,
                 chunkVars, manifest, otcData>>

chunkState == <<pc, chunkState2>>

fontState == <<sb, fresh, ops, pkg>>

selState == <<descriptions, target, out>>

genState == <<zip, finished, fontDescriptions, languageSet, fontData, egErr,
              languages, sourceFonts>>

clsState == <<parts>>

poolState == <<cpus, bufs, task, holds, genErr, outputs>>

onceState == <<pkgChunks, once, callers, returned, decoded>>

restState == <<clsState, poolState, onceState>>

vars == <<chunkState, fontState, selState, genState, restState>>

\* What generateFont and the chunk encoder leave alone.
notFont == <<selState, genState, restState>>
notChunk == <<fontState, notFont>>

----------------------------------------------------------------------------
(* Bounds of the model and scaled sizes.                                   *)

\* writeChunk's buf holds WordsPerBlock words (4096 / 8 = 512 in the source).
WordsPerBlock == 1
\* chunkSize is BlocksPerChunk blocks (20 MiB / 4096 = 5120 in the source).
BlocksPerChunk == 2
\* Longest blob enumerated over every content.
MaxBlob == 4
\* Longest patterned blob / stream.
MaxLong == 34
\* Length of a pooled buffer when created (4096 in the source).
PoolBufLen == 2
\* Calls of Write and Seek one merge makes.
MaxOps == 3
\* Packages generated one after the other on one pooled buffer.
MaxPackages == 2
\* Candidates of a group enumerated over every choice of pool descriptors.
MaxGroup == 2
\* Entries of the archive.
MaxFiles == 5
\* Goroutines that call OTC().
MaxCallers == 2
\* Processors of the machine, the number of buffers of the pool.
MaxCPU == 4
\* Bits of an int (64 in the build): sb.pos wraps around at this width.
IntBits == 6

WordSize == 8
BlockSize == WordsPerBlock * WordSize
chunkSize == BlocksPerChunk * BlockSize

Byte == 0 .. 255
ByteVals == {0, 165}

Min(a, b) == IF a < b THEN a ELSE b
Max(a, b) == IF a < b THEN b ELSE a

Zeros(n) == [k \in 1 .. n |-> 0]

\* A blob whose k-th byte is (seed + 37 * k) % 256.
Ramp(seed, n) == [k \in 1 .. n |-> (seed + 37 * k) % 256]

SeqsUpTo(S, n) == UNION {[1 .. m -> S] : m \in 0 .. n}

Blobs == SeqsUpTo(ByteVals, MaxBlob) \cup {Ramp(s, n) : s \in {0, 90}, n \in 0 .. MaxLong}

RECURSIVE SumSeq(_)
SumSeq(s) == IF s = <<>> THEN 0 ELSE Head(s) + SumSeq(Tail(s))

----------------------------------------------------------------------------
(* compress/gzip, as generateChunks and OTC use it.  A member is a header, *)
(* a deflate body and a trailer; the body is modelled as one final stored  *)
(* block (flag, length, bytes), the trailer as a check byte and the size.  *)

GzHeader == <<31, 139>>

Deflate(B) == <<1, Len(B) % 256>> \o B

GzTrailer(B) == <<SumSeq(B) % 256, Len(B) % 256>>

\* gzip.NewWriterLevel(pw, ...); gz.Write(data); gz.Close(): header and trailer
\* are written for every input, the empty one included.
Gzip(B) == GzHeader \o Deflate(B) \o GzTrailer(B)

\* make([]byte, size); r, _ := gzip.NewReader(cr); io.ReadFull(r, otcData):
\* the bytes the reader delivers, at most size, the rest of the buffer zero.
\* Errors are dropped by the caller; a stream with no gzip header leaves r nil,
\* and the read through it panics (Panicked).
Panicked == <<-1>>

Gunzip(s, size) ==
    IF size = 0 THEN <<>>
    ELSE IF Len(s) < 4 \/ SubSeq(s, 1, 2) # GzHeader THEN Panicked
    ELSE LET n == Min(Min(s[4], Len(s) - 4), size)
         IN  SubSeq(s, 5, 4 + n) \o Zeros(size - n)

----------------------------------------------------------------------------
(* Words.  A uint64 is kept as four 16-bit limbs, least significant first. *)

\* binary.LittleEndian.Uint64(b)
Uint64LE(b) == [k \in 1 .. 4 |-> b[2 * k - 1] + 256 * b[2 * k]]

\* Big-endian hex digits of a word, 16 of them.
HexDigits16(u) ==
    [k \in 1 .. 16 |->
        LET limb == u[4 - ((k - 1) \div 4)]
            sh   == 3 - ((k - 1) % 4)
        IN  (limb \div (16 ^ sh)) % 16]

RECURSIVE StripZeros(_)
StripZeros(d) == IF Len(d) > 2 /\ Head(d) = 0 THEN StripZeros(Tail(d)) ELSE d

\* fmt.Fprintf(w, "0x%02X", encoded): the digits after "0x", at least two.
FormatWord(u) == StripZeros(HexDigits16(u))

\* The Go compiler reading the literal back as a uint64.
ParseWord(d) ==
    LET full == Zeros(16 - Len(d)) \o d
    IN  [k \in 1 .. 4 |->
            LET base == 16 - 4 * k
            IN  full[base + 1] * 4096 + full[base + 2] * 256
                + full[base + 3] * 16 + full[base + 4]]

\* Mutant of WordBytes: the bytes of a word taken most significant first.
WordBytesBigEndian(u) ==
    [k \in 1 .. 8 |-> (u[(10 - k) \div 2] \div (IF k % 2 = 1 THEN 256 ELSE 1)) % 256]

\* chunkDecoder.Read: p[j] = byte(u & (0xff << 8j) >> 8j), j = 0 .. 7.
WordBytes(u) == [k \in 1 .. 8 |-> (u[(k + 1) \div 2] \div (IF k % 2 = 1 THEN 1 ELSE 256)) % 256]

RECURSIVE Flatten(_)
Flatten(ss) == IF ss = <<>> THEN <<>> ELSE Head(ss) \o Flatten(Tail(ss))

\* The byte stream chunkDecoder.Read delivers from chunks ( [][]uint64 ).
DecoderBytes(chunks) ==
    Flatten([c \in 1 .. Len(chunks) |->
        Flatten([w \in 1 .. Len(chunks[c]) |-> WordBytes(chunks[c][w])])])

\* strconv.Itoa and the compiler reading the constant back.
RECURSIVE Itoa(_)
Itoa(n) == IF n < 10 THEN <<n>> ELSE Itoa(n \div 10) \o <<n % 10>>

RECURSIVE Atoi(_)
Atoi(d) == IF d = <<>> THEN 0 ELSE 10 * Atoi(SubSeq(d, 1, Len(d) - 1)) + d[Len(d)]

----------------------------------------------------------------------------
(* generateChunks and writeChunk.                                          *)

NoManifest == [chunks |-> <<>>, decompressedSize |-> <<>>, written |-> FALSE]

\* The selector part of the state while it is not looked at.
NoTarget == [weight |-> 0, hDensity |-> 0, vDensity |-> 0, style |-> 0]
SelIdle == descriptions = <<>> /\ target = NoTarget /\ out = <<>>

\* generateFonts before the archive is opened.
GenIdle ==
    /\ zip = {} /\ finished = {} /\ fontDescriptions = <<>> /\ languageSet = {}
    /\ fontData = <<>> /\ egErr = <<>> /\ languages = <<>> /\ sourceFonts = <<>>

\* No classification task picked out, no generation task started, OTC() not
\* yet called.
ClsIdle == parts = <<>>
PoolIdle == cpus = 0 /\ bufs = <<>> /\ task = <<>> /\ holds = <<>> /\ genErr = 0 /\ outputs = {}
OnceIdle == pkgChunks = <<>> /\ once = "new" /\ callers = <<>> /\ returned = <<>> /\ decoded = 0
RestIdle == ClsIdle /\ PoolIdle /\ OnceIdle

\* generateChunks not yet called.
ChunkIdle ==
    /\ data = <<>> /\ piped = <<>> /\ stream = <<>> /\ limit = 0 /\ idx = 0
    /\ buf = [k \in 1 .. (WordsPerBlock * WordSize) |-> 0]
    /\ comma = FALSE /\ empty = FALSE /\ files = <<>> /\ counts = <<>>
    /\ chunkVars = <<>>
    /\ manifest = [chunks |-> <<>>, decompressedSize |-> <<>>, written |-> FALSE]
    /\ otcData = <<>>

\* The seekBuffer as the pool creates it: &seekBuffer{buf: make([]byte, 4096)}.
NewPoolBuf == [arr |-> Zeros(PoolBufLen), len |-> PoolBufLen, pos |-> 0]

\* A zero seekBuffer{}.
ZeroBuf == [arr |-> <<>>, len |-> 0, pos |-> 0]

\* The buffer part of the state while only generateChunks is looked at.
FontIdle ==
    /\ sb = NewPoolBuf /\ fresh = ZeroBuf /\ ops = 0 /\ pkg = 0
    /\ SelIdle
    /\ GenIdle
    /\ RestIdle

\* generateChunks called with a blob: the pipe is created, nothing written yet.
InitChunks ==
    /\ pc = "gzip"
    /\ data \in Blobs
    /\ piped = <<>>
    /\ stream = <<>>
    /\ limit = 0
    /\ idx = 0
    /\ buf = Zeros(BlockSize)
    /\ comma = FALSE
    /\ empty = FALSE
    /\ files = <<>>
    /\ counts = <<>>
    /\ chunkVars = <<>>
    /\ manifest = NoManifest
    /\ otcData = <<>>
    /\ FontIdle

\* The goroutine of generateChunks: compress data into the pipe and close it.
GzipWrite ==
    /\ UNCHANGED notChunk
    /\ pc = "gzip"
    /\ piped' = Gzip(data)
    /\ stream' = piped'
    /\ pc' = "open"
    /\ UNCHANGED <<data, limit, idx, buf, comma, empty, files, counts, chunkVars,
                   manifest, otcData>>

\* writeChunk's entry for chunk idx: r := io.LimitReader(pr, chunkSize),
\* os.Create, a zeroed buf, the header text.
OpenChunk ==
    /\ UNCHANGED notChunk
    /\ pc = "open"
    /\ limit' = chunkSize
    /\ files' = [k \in (DOMAIN files) \cup {idx} |-> IF k = idx THEN <<>> ELSE files[k]]
    /\ counts' = [k \in (DOMAIN counts) \cup {idx} |-> IF k = idx THEN 0 ELSE counts[k]]
    /\ buf' = Zeros(BlockSize)
    /\ comma' = FALSE
    /\ empty' = FALSE
    /\ pc' = "read"
    /\ UNCHANGED <<data, piped, stream, idx, chunkVars, manifest, otcData>>

\* copy(buf[n:], []byte{0, 0, 0, 0}): four zero bytes, as many as fit.
PadCopy(b, n) == [k \in 1 .. Len(b) |-> IF k > n /\ k <= n + 4 THEN 0 ELSE b[k]]

\* The words of buf[0:n], n a multiple of 8, as written to the file.
BlockWords(b, n) ==
    [w \in 1 .. (n \div WordSize) |->
        FormatWord(Uint64LE(SubSeq(b, WordSize * (w - 1) + 1, WordSize * w)))]

\* Mutant of ReadFullN: the pipe read without the io.LimitReader.
ReadFullNoLimit(lim, s) == Min(BlockSize, Len(s))

\* n of io.ReadFull(r, buf[:]) with r = io.LimitReader(pr, chunkSize): what
\* the block, the limit and the pipe allow.
ReadFullN(lim, s) == Min(BlockSize, Min(lim, Len(s)))

\* errors.Is(err, io.EOF) && !comma: ReadFull gives io.EOF only when n = 0.
IsEmpty(n, c) == n = 0 /\ ~c

\* One pass of writeChunk's loop: io.ReadFull(r, buf[:]), the padding, the
\* words, and the break on a short read.
ReadBlock ==
    /\ UNCHANGED notChunk
    /\ pc = "read"
    /\ LET n    == ReadFullN(limit, stream)
           got  == [k \in 1 .. BlockSize |-> IF k <= n THEN stream[k] ELSE buf[k]]
           pad  == IF n % WordSize # 0 THEN PadCopy(got, n) ELSE got
           np   == IF n % WordSize # 0 THEN n + (WordSize - (n % WordSize)) ELSE n
           err  == n < BlockSize
       IN  /\ stream' = SubSeq(stream, n + 1, Len(stream))
           /\ limit' = limit - n
           /\ buf' = pad
           /\ files' = [files EXCEPT ![idx] = @ \o BlockWords(pad, np)]
           /\ counts' = [counts EXCEPT ![idx] = @ + n]
           /\ comma' = (comma \/ np > 0)
           /\ empty' = (err /\ IsEmpty(n, comma'))
           /\ pc' = IF err THEN "close" ELSE "read"
    /\ UNCHANGED <<data, piped, idx, chunkVars, manifest, otcData>>

\* Mutant of RemoveFile: the superfluous chunk file is left on disk.
KeepFile(fs, i) == fs

\* os.Remove(outputFile)
RemoveFile(fs, i) == [k \in (DOMAIN fs) \ {i} |-> fs[k]]

\* writeChunk's exit and generateChunks' use of more: an empty file is removed
\* and ends the loop, any other is listed and the next index follows.
CloseChunk ==
    /\ UNCHANGED notChunk
    /\ pc = "close"
    /\ IF empty
       THEN /\ files' = RemoveFile(files, idx)
            /\ counts' = [k \in DOMAIN files' |-> counts[k]]
            /\ pc' = "manifest"
            /\ UNCHANGED <<idx, chunkVars>>
       ELSE /\ chunkVars' = Append(chunkVars, idx)
            /\ idx' = idx + 1
            /\ pc' = "open"
            /\ UNCHANGED <<files, counts>>
    /\ UNCHANGED <<data, piped, stream, limit, buf, comma, empty, manifest, otcData>>

\* ioutil.WriteFile(chunk.go): the chunk list and decompressedSize.
WriteManifest ==
    /\ UNCHANGED notChunk
    /\ pc = "manifest"
    /\ manifest' = [chunks |-> chunkVars, decompressedSize |-> Itoa(Len(data)),
                    written |-> TRUE]
    /\ pc' = "built"
    /\ UNCHANGED <<data, piped, stream, limit, idx, buf, comma, empty, files, counts,
                   chunkVars, otcData>>

\* var chunks = [][]uint64{chunk0, ...} of the generated package.
PackageChunks ==
    [c \in 1 .. Len(manifest.chunks) |->
        LET f == files[manifest.chunks[c]]
        IN  [w \in 1 .. Len(f) |-> ParseWord(f[w])]]

\* OTC() of the generated package, first call.
OTC ==
    /\ UNCHANGED notChunk
    /\ pc = "built"
    /\ otcData' = Gunzip(DecoderBytes(PackageChunks), Atoi(manifest.decompressedSize))
    /\ pc' = "done"
    /\ UNCHANGED <<data, piped, stream, limit, idx, buf, comma, empty, files, counts,
                   chunkVars, manifest>>

NextChunks == GzipWrite \/ OpenChunk \/ ReadBlock \/ CloseChunk \/ WriteManifest \/ OTC

SpecChunks == InitChunks /\ [][NextChunks]_vars

----------------------------------------------------------------------------
(* OTC() of the generated package called from several goroutines.  Do of   *)
(* sync.Once runs the function for the first caller; a caller that comes   *)
(* while it runs waits for it to return, a later one passes.               *)

\* What a call of OTC() leaves alone.
notOnce == <<data, piped, stream, limit, idx, buf, comma, empty, files, counts,
             chunkVars, manifest, fontState, selState, genState, clsState, poolState>>

Callers == 1 .. MaxCallers

NotReturned == <<-2>>

\* The program that imports the package starts: var chunks is initialised.
Import ==
    /\ pc = "built"
    /\ pkgChunks' = PackageChunks
    /\ callers' = [c \in Callers |-> "idle"]
    /\ returned' = [c \in Callers |-> NotReturned]
    /\ pc' = "imported"
    /\ UNCHANGED <<notOnce, otcData, once, decoded>>

\* Mutant of Call: the function is run for every caller.
CallEvery(c) ==
    /\ pc = "imported"
    /\ callers[c] = "idle"
    /\ once' = "running"
    /\ decoded' = decoded + 1
    /\ callers' = [callers EXCEPT ![c] = "make"]
    /\ UNCHANGED <<pc, notOnce, otcData, pkgChunks, returned>>

\* initOnce.Do(...): the first caller starts the function.
Call(c) ==
    /\ pc = "imported"
    /\ callers[c] = "idle"
    /\ once' = IF once = "new" THEN "running" ELSE once
    /\ decoded' = IF once = "new" THEN decoded + 1 ELSE decoded
    /\ callers' = [callers EXCEPT ![c] =
                      CASE once = "new" -> "make"
                        [] once = "running" -> "wait"
                        [] once = "done" -> "return"]
    /\ UNCHANGED <<pc, notOnce, otcData, pkgChunks, returned>>

\* otcData = make([]byte, decompressedSize)
Make(c) ==
    /\ pc = "imported"
    /\ callers[c] = "make"
    /\ otcData' = Zeros(Atoi(manifest.decompressedSize))
    /\ callers' = [callers EXCEPT ![c] = "read"]
    /\ UNCHANGED <<pc, notOnce, pkgChunks, once, returned, decoded>>

\* r, _ := gzip.NewReader(cr); io.ReadFull(r, otcData); chunks = nil; Do
\* returns.
ReadAll(c) ==
    /\ pc = "imported"
    /\ callers[c] = "read"
    /\ otcData' = Gunzip(DecoderBytes(pkgChunks), Len(otcData))
    /\ pkgChunks' = <<>>
    /\ once' = "done"
    /\ callers' = [callers EXCEPT ![c] = "return"]
    /\ UNCHANGED <<pc, notOnce, returned, decoded>>

\* Do returns to a caller that waited for the function to return.
Wake(c) ==
    /\ pc = "imported"
    /\ callers[c] = "wait"
    /\ once = "done"
    /\ callers' = [callers EXCEPT ![c] = "return"]
    /\ UNCHANGED <<pc, notOnce, otcData, pkgChunks, once, returned, decoded>>

\* return otcData
Return(c) ==
    /\ pc = "imported"
    /\ callers[c] = "return"
    /\ returned' = [returned EXCEPT ![c] = otcData]
    /\ callers' = [callers EXCEPT ![c] = "idle"]
    /\ UNCHANGED <<pc, notOnce, otcData, pkgChunks, once, decoded>>

NextOnce ==
    \/ GzipWrite \/ OpenChunk \/ ReadBlock \/ CloseChunk \/ WriteManifest
    \/ Import
    \/ \E c \in Callers : Call(c) \/ Make(c) \/ ReadAll(c) \/ Wake(c) \/ Return(c)

SpecOnce == InitChunks /\ [][NextOnce]_vars

\* writeChunk's loop over any pipe contents: the reader r is writeChunk's input.
Streams == SeqsUpTo(ByteVals, MaxBlob) \cup {Ramp(s, n) : s \in {0, 90}, n \in 0 .. MaxLong}

InitStream ==
    /\ pc = "open"
    /\ data = <<>>
    /\ piped \in Streams
    /\ stream = piped
    /\ limit = 0
    /\ idx = 0
    /\ buf = Zeros(BlockSize)
    /\ comma = FALSE
    /\ empty = FALSE
    /\ files = <<>>
    /\ counts = <<>>
    /\ chunkVars = <<>>
    /\ manifest = NoManifest
    /\ otcData = <<>>
    /\ FontIdle

NextStream == OpenChunk \/ ReadBlock \/ CloseChunk \/ WriteManifest

SpecStream == InitStream /\ [][NextStream]_vars

----------------------------------------------------------------------------
(* seekBuffer (src/unnamed/part_001) and generateFont.                     *)

\* sb.buf
BufOf(b) == SubSeq(b.arr, 1, b.len)

\* Mutant of SbReset: the position is rewound but the length kept.
SbResetKeepLen(b) == [b EXCEPT !.pos = 0]

\* seekBuffer.Reset
SbReset(b) == [b EXCEPT !.len = 0, !.pos = 0]

\* Mutant of SbWrite: a buffer that is long enough is resliced to its whole
\* capacity.
SbWriteToCap(b, p) ==
    LET n    == Len(p)
        grow == b.pos + n > b.len
        b1   == IF grow /\ b.pos + n > Len(b.arr)
                THEN [b EXCEPT !.arr = [k \in 1 .. (2 * b.len + n) |->
                                            IF k <= Min(b.pos + n, b.len) THEN b.arr[k] ELSE 0],
                               !.len = b.pos + n]
                ELSE IF grow THEN [b EXCEPT !.len = Len(b.arr)]
                ELSE b
        m    == Min(n, b1.len - b1.pos)
    IN  [b1 EXCEPT !.arr = [k \in 1 .. Len(b1.arr) |->
                                IF k > b1.pos /\ k <= b1.pos + m THEN p[k - b1.pos] ELSE b1.arr[k]],
                   !.pos = b1.pos + m]

\* seekBuffer.Write
SbWrite(b, p) ==
    LET n    == Len(p)
        grow == b.pos + n > b.len
        b1   == IF grow /\ b.pos + n > Len(b.arr)
                THEN [b EXCEPT !.arr = [k \in 1 .. (2 * b.len + n) |->
                                            IF k <= Min(b.pos + n, b.len) THEN b.arr[k] ELSE 0],
                               !.len = b.pos + n]
                ELSE IF grow THEN [b EXCEPT !.len = b.pos + n]
                ELSE b
        m    == Min(n, b1.len - b1.pos)
    IN  [b1 EXCEPT !.arr = [k \in 1 .. Len(b1.arr) |->
                                IF k > b1.pos /\ k <= b1.pos + m THEN p[k - b1.pos] ELSE b1.arr[k]],
                   !.pos = b1.pos + m]

SeekStart == 0
SeekCurrent == 1
SeekEnd == 2

\* The least and the greatest int.
MinInt == 0 - 2 ^ (IntBits - 1)
MaxInt == 2 ^ (IntBits - 1) - 1

\* The int a sum comes to: Go's signed integers wrap around.
WrapInt(x) == ((x - MinInt) % (2 ^ IntBits)) + MinInt

\* Mutant of Clamp: a position past the end is left as it is.
ClampBelow(x, lo, hi) == IF x < lo THEN lo ELSE x

\* if sb.pos < 0 { sb.pos = 0 } else if sb.pos > len(sb.buf) { sb.pos = len(sb.buf) }
Clamp(x, lo, hi) == IF x < lo THEN lo ELSE IF x > hi THEN hi ELSE x

\* seekBuffer.Seek returns an error.
SeekFails(offset, whence) == whence = SeekStart /\ offset < 0

\* seekBuffer.Seek: the buffer after the call (the error return leaves it as is).
SbSeek(b, offset, whence) ==
    IF SeekFails(offset, whence) THEN b
    ELSE LET p == CASE whence = SeekStart -> offset
                    [] whence = SeekEnd -> IF offset >= 0 THEN b.len ELSE WrapInt(b.len + offset)
                    [] whence = SeekCurrent -> WrapInt(b.pos + offset)
                    [] OTHER -> b.pos
         IN  [b EXCEPT !.pos = Clamp(p, 0, b.len)]

\* What otcmerge.Merge may pass to Write and Seek.
Payloads == {<<165>>, <<0, 165>>}
SeekOffsets == {MinInt, -1, 0, 1, 9, MaxInt}
Whences == {SeekStart, SeekCurrent, SeekEnd}

\* A generation task holding a pooled buffer, about to call generateFont.
InitFont ==
    /\ pc = "acquired"
    /\ data = <<>>
    /\ piped = <<>>
    /\ stream = <<>>
    /\ limit = 0
    /\ idx = 0
    /\ buf = Zeros(BlockSize)
    /\ comma = FALSE
    /\ empty = FALSE
    /\ files = <<>>
    /\ counts = <<>>
    /\ chunkVars = <<>>
    /\ manifest = NoManifest
    /\ otcData = <<>>
    /\ FontIdle

\* generateFont: buf.Reset() before the merge.
Reset ==
    /\ UNCHANGED notFont
    /\ pc = "acquired"
    /\ sb' = SbReset(sb)
    /\ fresh' = ZeroBuf
    /\ ops' = 0
    /\ pc' = "merge"
    /\ UNCHANGED <<data, piped, stream, limit, idx, buf, comma, empty, files, counts,
                   chunkVars, manifest, otcData, pkg>>

\* otcmerge.Merge writing to the buffer.
MergeWrite ==
    /\ UNCHANGED notFont
    /\ pc = "merge"
    /\ ops < MaxOps
    /\ \E p \in Payloads :
        /\ sb' = SbWrite(sb, p)
        /\ fresh' = SbWrite(fresh, p)
    /\ ops' = ops + 1
    /\ UNCHANGED <<chunkState, pkg>>

\* otcmerge.Merge seeking in the buffer.
MergeSeek ==
    /\ UNCHANGED notFont
    /\ pc = "merge"
    /\ ops < MaxOps
    /\ \E off \in SeekOffsets, wh \in Whences :
        /\ sb' = SbSeek(sb, off, wh)
        /\ fresh' = SbSeek(fresh, off, wh)
    /\ ops' = ops + 1
    /\ UNCHANGED <<chunkState, pkg>>

\* otcmerge.Merge returns an error: generateFont returns it.
MergeFail ==
    /\ UNCHANGED notFont
    /\ pc = "merge"
    /\ pc' = "failed"
    /\ UNCHANGED <<data, piped, stream, limit, idx, buf, comma, empty, files, counts,
                   chunkVars, manifest, otcData, fontState>>

\* The merge is done: generateSupportFiles, then generateChunks(..., buf.buf)
\* in the package's own directory.
MergeOk ==
    /\ UNCHANGED notFont
    /\ pc = "merge"
    /\ data' = BufOf(sb)
    /\ piped' = <<>>
    /\ stream' = <<>>
    /\ limit' = 0
    /\ idx' = 0
    /\ buf' = Zeros(BlockSize)
    /\ comma' = FALSE
    /\ empty' = FALSE
    /\ files' = <<>>
    /\ counts' = <<>>
    /\ chunkVars' = <<>>
    /\ manifest' = NoManifest
    /\ otcData' = <<>>
    /\ pc' = "gzip"
    /\ UNCHANGED fontState

\* The deferred recycleBufs <- buf, and the next task receiving the same buffer.
Release ==
    /\ UNCHANGED notFont
    /\ pc \in {"built", "failed"}
    /\ pkg + 1 < MaxPackages
    /\ pkg' = pkg + 1
    /\ pc' = "acquired"
    /\ UNCHANGED <<data, piped, stream, limit, idx, buf, comma, empty, files, counts,
                   chunkVars, manifest, otcData, sb, fresh, ops>>

NextFont ==
    \/ Reset \/ MergeWrite \/ MergeSeek \/ MergeFail \/ MergeOk
    \/ GzipWrite \/ OpenChunk \/ ReadBlock \/ CloseChunk \/ WriteManifest
    \/ Release

SpecFont == InitFont /\ [][NextFont]_vars

----------------------------------------------------------------------------
(* The selector: appendMatchingFonts.                                      *)

\* len(weights), len(hDensities), len(vDensities), len(styles)
NumWeights == 10
NumHDensities == 4
NumVDensities == 2
NumStyles == 2

\* An int64 of the distance, kept as <<hi, lo>> = hi * 10^8 + lo, 0 <= lo < 10^8.
E8 == 100000000

I64Norm(hi, lo) == <<hi + (lo \div E8), lo % E8>>
I64Add(a, b) == I64Norm(a[1] + b[1], a[2] + b[2])
I64Sub(a, b) == I64Norm(a[1] - b[1], a[2] - b[2])
I64Less(a, b) == a[1] < b[1] \/ (a[1] = b[1] /\ a[2] < b[2])

Abs(x) == IF x < 0 THEN 0 - x ELSE x

\* Mutant of WeightedSum: the style difference weighs no more than a weight step.
WeightedSumFlat(styleDist, weightDist, hDensityDist, vDensityDist) ==
    I64Add(I64Add(I64Norm(10000 * styleDist, 0), I64Norm(10000 * weightDist, 0)),
           I64Add(I64Norm(100 * hDensityDist, 0), I64Norm(vDensityDist, 0)))

\* Mutant of WeightedSum: the weight and hDensity factors exchanged.
WeightedSumSwapped(styleDist, weightDist, hDensityDist, vDensityDist) ==
    I64Add(I64Add(I64Norm(1000000 * styleDist, 0), I64Norm(100 * weightDist, 0)),
           I64Add(I64Norm(10000 * hDensityDist, 0), I64Norm(vDensityDist, 0)))

\* 1e14*styleDist + 1e12*weightDist + 1e10*hDensityDist + 1e8*vDensityDist
WeightedSum(styleDist, weightDist, hDensityDist, vDensityDist) ==
    I64Add(I64Add(I64Norm(1000000 * styleDist, 0), I64Norm(10000 * weightDist, 0)),
           I64Add(I64Norm(100 * hDensityDist, 0), I64Norm(vDensityDist, 0)))

\* 1e6*d.style + 1e4*d.weight + 1e2*d.hDensity + d.vDensity
TieBreak(d) ==
    I64Add(I64Add(I64Norm(0, 1000000 * d.style), I64Norm(0, 10000 * d.weight)),
           I64Add(I64Norm(0, 100 * d.hDensity), I64Norm(0, d.vDensity)))

\* descDistance of appendMatchingFonts, for the target t.
descDistance(d, t) ==
    I64Sub(WeightedSum(Abs(t.style - d.style), Abs(t.weight - d.weight),
                       Abs(t.hDensity - d.hDensity), Abs(t.vDensity - d.vDensity)),
           TieBreak(d))

\* Mutant of Closer: the comparison the other way round.
Farther(dist, matchDist) == I64Less(matchDist, dist)

\* dist < matchDist
Closer(dist, matchDist) == I64Less(dist, matchDist)

\* The loop of appendMatchingFonts over descriptions[1 .. n]: the index of
\* match (0 for nil).
RECURSIVE MatchIndex(_, _, _)
MatchIndex(ds, t, n) ==
    IF n = 0 THEN 0
    ELSE LET m == MatchIndex(ds, t, n - 1)
         IN  IF m = 0 \/ Closer(descDistance(ds[n], t), descDistance(ds[m], t)) THEN n ELSE m

\* Mutant of appendMatchingFonts: the append is made for every descriptor
\* that becomes the match, inside the loop.
appendEachMatch(o, ds, t) ==
    o \o SelectSeq(ds, LAMBDA d : \E n \in DOMAIN ds : ds[n] = d /\ MatchIndex(ds, t, n) = n)

\* if match != nil { out = append(out, match) } after the loop.
appendMatchingFonts(o, ds, t) ==
    LET m == MatchIndex(ds, t, Len(ds))
    IN  IF m # 0 THEN Append(o, ds[m]) ELSE o

\* Every descriptor the classifier can produce, but for the file name.
Axes ==
    [weight : 0 .. (NumWeights - 1), hDensity : 0 .. (NumHDensities - 1),
     vDensity : 0 .. (NumVDensities - 1), style : 0 .. (NumStyles - 1)]

Desc(a, name) ==
    [filename |-> name, weight |-> a.weight, hDensity |-> a.hDensity,
     vDensity |-> a.vDensity, style |-> a.style]

\* The candidates and targets the selector is checked on: candidates at the
\* weights 2, 5 and 7 with the first or last hDensity and every vDensity and
\* style, and at the first and last weight with the default densities and
\* either style; the targets of the program and those at the weights 0 and 5
\* with the default hDensity.
PoolAxes ==
    {a \in Axes :
        \/ a.weight \in {2, 5, 7} /\ a.hDensity \in {0, NumHDensities - 1}
        \/ /\ a.weight \in {0, NumWeights - 1}
           /\ a.hDensity = NumHDensities - 1 /\ a.vDensity = NumVDensities - 1}

\* The targets of outputFamilies: Regular, Bold, Bold Italic, Italic, Condensed.
ProgramTargets ==
    {[weight |-> 4, hDensity |-> 3, vDensity |-> 1, style |-> 0],
     [weight |-> 7, hDensity |-> 3, vDensity |-> 1, style |-> 0],
     [weight |-> 7, hDensity |-> 3, vDensity |-> 1, style |-> 1],
     [weight |-> 4, hDensity |-> 3, vDensity |-> 1, style |-> 1],
     [weight |-> 4, hDensity |-> 1, vDensity |-> 0, style |-> 0]}

TargetAxes ==
    ProgramTargets \cup {a \in Axes : a.weight \in {0, 5} /\ a.hDensity = NumHDensities - 1}

\* Groups of up to MaxGroup candidates, and the groups of three candidates at
\* the weights 2, 5 and 7 in any order.
Groups ==
    UNION {[1 .. n -> PoolAxes] : n \in 0 .. MaxGroup}
    \cup {g \in [1 .. 3 -> {a \in PoolAxes : a.weight \in {2, 5, 7}}] :
            {g[k].weight : k \in 1 .. 3} = {2, 5, 7}}

InitSelect ==
    /\ pc = "select"
    /\ \E g \in Groups : descriptions = [k \in DOMAIN g |-> Desc(g[k], k)]
    /\ target \in TargetAxes
    /\ out = <<>>
    /\ ChunkIdle
    /\ sb = NewPoolBuf /\ fresh = ZeroBuf /\ ops = 0 /\ pkg = 0
    /\ GenIdle
    /\ RestIdle

\* One call of appendMatchingFonts.
Select ==
    /\ pc = "select"
    /\ out' = appendMatchingFonts(out, descriptions, target)
    /\ pc' = "selected"
    /\ UNCHANGED <<chunkState2, fontState, genState, restState, descriptions, target>>

NextSelect == Select

SpecSelect == InitSelect /\ [][NextSelect]_vars

----------------------------------------------------------------------------
(* generateFonts: the classification of the archive's entries and the      *)
(* composition of each package's sourceFonts.  A string is the sequence of *)
(* its characters.                                                         *)

families ==
    <<<<"S", "e", "r", "i", "f", "D", "i", "s", "p", "l", "a", "y">>,
      <<"S", "a", "n", "s", "D", "i", "s", "p", "l", "a", "y">>,
      <<"S", "a", "n", "s", "M", "o", "n", "o">>,
      <<"S", "e", "r", "i", "f">>,
      <<"S", "a", "n", "s">>,
      <<"M", "o", "n", "o">>,
      <<"E", "m", "o", "j", "i">>,
      <<"K", "u", "f", "i", "A", "r", "a", "b", "i", "c">>,
      <<"N", "a", "s", "k", "h", "A", "r", "a", "b", "i", "c">>,
      <<"N", "a", "s", "t", "a", "l", "i", "q", "U", "r", "d", "u">>>>

weights ==
    <<<<"T", "h", "i", "n">>,
      <<"E", "x", "t", "r", "a", "L", "i", "g", "h", "t">>,
      <<"L", "i", "g", "h", "t">>,
      <<"D", "e", "m", "i", "L", "i", "g", "h", "t">>,
      <<"R", "e", "g", "u", "l", "a", "r">>,
      <<"M", "e", "d", "i", "u", "m">>,
      <<"S", "e", "m", "i", "B", "o", "l", "d">>,
      <<"B", "o", "l", "d">>,
      <<"E", "x", "t", "r", "a", "B", "o", "l", "d">>,
      <<"B", "l", "a", "c", "k">>>>

hDensities ==
    <<<<"E", "x", "t", "r", "a", "C", "o", "n", "d", "e", "n", "s", "e", "d">>,
      <<"C", "o", "n", "d", "e", "n", "s", "e", "d">>,
      <<"S", "e", "m", "i", "C", "o", "n", "d", "e", "n", "s", "e", "d">>,
      <<>>>>

vDensities ==
    <<<<"U", "I">>,
      <<>>>>

styles ==
    <<<<>>,
      <<"I", "t", "a", "l", "i", "c">>>>

sNoto == <<"N", "o", "t", "o">>
sOtf == <<".", "o", "t", "f">>
sTtf == <<".", "t", "t", "f">>
sRegular == <<"R", "e", "g", "u", "l", "a", "r">>
sBold == <<"B", "o", "l", "d">>
sItalic == <<"I", "t", "a", "l", "i", "c">>
sCondensed == <<"C", "o", "n", "d", "e", "n", "s", "e", "d">>
sUI == <<"U", "I">>
sSans == <<"S", "a", "n", "s">>
sSansMono == <<"S", "a", "n", "s", "M", "o", "n", "o">>
sEmoji == <<"E", "m", "o", "j", "i">>
sKufiArabic == <<"K", "u", "f", "i", "A", "r", "a", "b", "i", "c">>
sNaskhArabic == <<"N", "a", "s", "k", "h", "A", "r", "a", "b", "i", "c">>
sNastaliqUrdu == <<"N", "a", "s", "t", "a", "l", "i", "q", "U", "r", "d", "u">>

\* strings.HasPrefix
HasPrefix(s, x) == Len(x) <= Len(s) /\ SubSeq(s, 1, Len(x)) = x

\* Mutant of HasSuffix: no suffix is found.
HasSuffixNever(s, x) == FALSE

\* strings.HasSuffix
HasSuffix(s, x) == Len(x) <= Len(s) /\ SubSeq(s, Len(s) - Len(x) + 1, Len(s)) = x

\* Mutant of IndexOfFrom: the empty entry is passed over without becoming
\* the default.
RECURSIVE IndexOfFromNoDefault(_, _, _, _, _)
IndexOfFromNoDefault(s, l, prefix, k, def) ==
    IF k > Len(l) THEN [i |-> def, rest |-> s, x |-> <<>>]
    ELSE IF l[k] = <<>> THEN IndexOfFromNoDefault(s, l, prefix, k + 1, def)
    ELSE IF prefix /\ HasPrefix(s, l[k])
         THEN [i |-> k - 1, rest |-> SubSeq(s, Len(l[k]) + 1, Len(s)), x |-> l[k]]
    ELSE IF ~prefix /\ HasSuffix(s, l[k])
         THEN [i |-> k - 1, rest |-> SubSeq(s, 1, Len(s) - Len(l[k])), x |-> l[k]]
    ELSE IndexOfFromNoDefault(s, l, prefix, k + 1, def)

\* indexOf: the entries of l from the k-th on, def as found so far.  The
\* result is the index (from 0), the rest of s and the entry matched.
RECURSIVE IndexOfFrom(_, _, _, _, _)
IndexOfFrom(s, l, prefix, k, def) ==
    IF k > Len(l) THEN [i |-> def, rest |-> s, x |-> <<>>]
    ELSE IF l[k] = <<>> THEN IndexOfFrom(s, l, prefix, k + 1, k - 1)
    ELSE IF prefix /\ HasPrefix(s, l[k])
         THEN [i |-> k - 1, rest |-> SubSeq(s, Len(l[k]) + 1, Len(s)), x |-> l[k]]
    ELSE IF ~prefix /\ HasSuffix(s, l[k])
         THEN [i |-> k - 1, rest |-> SubSeq(s, 1, Len(s) - Len(l[k])), x |-> l[k]]
    ELSE IndexOfFrom(s, l, prefix, k + 1, def)

indexOf(s, l, prefix) == IndexOfFrom(s, l, prefix, 1, -1)

exactIndexOf(s, l) ==
    IF \E k \in DOMAIN l : l[k] = s
    THEN (CHOOSE k \in DOMAIN l : l[k] = s /\ \A j \in 1 .. (k - 1) : l[j] # s) - 1
    ELSE -1

\* filepath.Ext: the suffix from the last dot of the last path element.
Ext(name) ==
    LET slashes == {k \in DOMAIN name : name[k] = "/"}
        from    == IF slashes = {} THEN 1 ELSE 1 + CHOOSE k \in slashes : \A j \in slashes : j <= k
        dots    == {k \in from .. Len(name) : name[k] = "."}
    IN  IF dots = {} THEN <<>>
        ELSE SubSeq(name, CHOOSE k \in dots : \A j \in dots : j <= k, Len(name))

\* Mutant of SplitDash: a name without the separator gives an empty second
\* term.
SplitDashAlways(s) ==
    LET dashes == {k \in DOMAIN s : s[k] = "-"}
    IN  IF dashes = {} THEN <<s, <<>>>>
        ELSE LET k == CHOOSE k \in dashes : \A j \in dashes : k <= j
             IN  <<SubSeq(s, 1, k - 1), SubSeq(s, k + 1, Len(s))>>

\* strings.SplitN(s, "-", 2)
SplitDash(s) ==
    LET dashes == {k \in DOMAIN s : s[k] = "-"}
    IN  IF dashes = {} THEN <<s>>
        ELSE LET k == CHOOSE k \in dashes : \A j \in dashes : k <= j
             IN  <<SubSeq(s, 1, k - 1), SubSeq(s, k + 1, Len(s))>>

Rejected == [ok |-> FALSE]

\* The classification task of one entry, up to the descriptor d.
Classify(fName) ==
    LET ext == Ext(fName)
    IN  IF Len(fName) < 9 THEN Rejected
        ELSE IF ext # sOtf /\ ext # sTtf THEN Rejected
        ELSE IF SubSeq(fName, 1, 4) # sNoto THEN Rejected
        ELSE
        LET name  == SubSeq(fName, 5, Len(fName) - Len(ext))
            terms == SplitDash(name)
        IN  IF Len(terms) # 2 THEN Rejected
            ELSE
            LET fam == indexOf(terms[1], families, TRUE)
            IN  IF fam.i < 0 THEN Rejected
                ELSE
                LET vd == indexOf(fam.rest, vDensities, FALSE)
                    st == indexOf(terms[2], styles, FALSE)
                    hd == indexOf(st.rest, hDensities, TRUE)
                    wt == indexOf(hd.rest, weights, TRUE)
                    weight == IF wt.i < 0 THEN exactIndexOf(sRegular, weights) ELSE wt.i
                IN  IF wt.rest # <<>> THEN Rejected
                    ELSE [ok |-> TRUE, familyName |-> fam.x, language |-> vd.rest,
                          d |-> [filename |-> fName, weight |-> weight, hDensity |-> hd.i,
                                 vDensity |-> vd.i, style |-> st.i]]

\* The bytes io.ReadFull reads from an entry.
Contents(fName) == <<"bytes of", fName>>

\* fontDescriptions[family][language], nil when there is none.
Group(fd, family, language) ==
    IF family \in DOMAIN fd /\ language \in DOMAIN fd[family]
    THEN fd[family][language] ELSE <<>>

\* Mutant of InsertDesc: the group becomes the one descriptor, as when an
\* append made from a stale read of the group is stored.
InsertDescOverwrite(fd, family, language, d) ==
    [fd EXCEPT ![family] =
        [l \in (DOMAIN fd[family]) \cup {language} |->
            IF l = language THEN <<d>> ELSE fd[family][l]]]

\* fontDescriptions[familyName][language] = append(..., d)
InsertDesc(fd, family, language, d) ==
    [fd EXCEPT ![family] =
        [l \in (DOMAIN fd[family]) \cup {language} |->
            IF l = language THEN Append(Group(fd, family, language), d) ELSE fd[family][l]]]

\* The character codes sort.Strings compares by.
Ascii ==
    ("A" :> 65) @@ ("B" :> 66) @@ ("C" :> 67) @@ ("D" :> 68) @@ ("E" :> 69) @@ ("F" :> 70) @@ ("G" :> 71) @@ ("H" :> 72) @@ ("I" :> 73) @@ ("J" :> 74) @@ ("K" :> 75) @@ ("L" :> 76) @@ ("M" :> 77)
    @@ ("N" :> 78) @@ ("O" :> 79) @@ ("P" :> 80) @@ ("Q" :> 81) @@ ("R" :> 82) @@ ("S" :> 83) @@ ("T" :> 84) @@ ("U" :> 85) @@ ("V" :> 86) @@ ("W" :> 87) @@ ("X" :> 88) @@ ("Y" :> 89) @@ ("Z" :> 90)
    @@ ("a" :> 97) @@ ("b" :> 98) @@ ("c" :> 99) @@ ("d" :> 100) @@ ("e" :> 101) @@ ("f" :> 102) @@ ("g" :> 103) @@ ("h" :> 104) @@ ("i" :> 105) @@ ("j" :> 106) @@ ("k" :> 107) @@ ("l" :> 108) @@ ("m" :> 109)
    @@ ("n" :> 110) @@ ("o" :> 111) @@ ("p" :> 112) @@ ("q" :> 113) @@ ("r" :> 114) @@ ("s" :> 115) @@ ("t" :> 116) @@ ("u" :> 117) @@ ("v" :> 118) @@ ("w" :> 119) @@ ("x" :> 120) @@ ("y" :> 121) @@ ("z" :> 122)
    @@ ("-" :> 45) @@ ("." :> 46) @@ ("/" :> 47)

\* a < b for strings, byte by byte.
RECURSIVE StrLess(_, _)
StrLess(a, b) ==
    IF b = <<>> THEN FALSE
    ELSE IF a = <<>> THEN TRUE
    ELSE IF Ascii[Head(a)] # Ascii[Head(b)] THEN Ascii[Head(a)] < Ascii[Head(b)]
    ELSE StrLess(Tail(a), Tail(b))

\* q with x put before the first entry greater than it.
RECURSIVE InsertSorted(_, _)
InsertSorted(q, x) ==
    IF q = <<>> THEN <<x>>
    ELSE IF StrLess(x, Head(q)) THEN <<x>> \o q
    ELSE <<Head(q)>> \o InsertSorted(Tail(q), x)

\* Mutant of SortStrings: the list left in the order the map was ranged over.
SortStringsNot(q) == q

\* sort.Strings(languages)
RECURSIVE SortStrings(_)
SortStrings(q) == IF q = <<>> THEN <<>> ELSE InsertSorted(SortStrings(Tail(q)), Head(q))

\* Some of outputFamilies: notosans, notosansbolditalic, notosanscondensed
\* and notomono.
outputFamilies ==
    <<[name |-> "notosans", inputFamily |-> sSans, weight |-> sRegular, hDensity |-> <<>>,
       vDensity |-> <<>>, style |-> <<>>,
       prependComboFamilies |-> <<sEmoji>>,
       appendComboFamilies |-> <<sKufiArabic, sNaskhArabic, sNastaliqUrdu>>],
      [name |-> "notosansbolditalic", inputFamily |-> sSans, weight |-> sBold, hDensity |-> <<>>,
       vDensity |-> <<>>, style |-> sItalic,
       prependComboFamilies |-> <<sEmoji>>,
       appendComboFamilies |-> <<sKufiArabic, sNaskhArabic, sNastaliqUrdu>>],
      [name |-> "notosanscondensed", inputFamily |-> sSans, weight |-> sRegular,
       hDensity |-> sCondensed, vDensity |-> sUI, style |-> <<>>,
       prependComboFamilies |-> <<sEmoji>>,
       appendComboFamilies |-> <<sKufiArabic, sNaskhArabic, sNastaliqUrdu>>],
      [name |-> "notomono", inputFamily |-> sSansMono, weight |-> sRegular, hDensity |-> <<>>,
       vDensity |-> <<>>, style |-> <<>>,
       prependComboFamilies |-> <<sEmoji>>,
       appendComboFamilies |-> <<>>]>>

\* The target of a generation task: exactIndexOf of each axis name.
TargetOf(outFamily) ==
    [weight |-> exactIndexOf(outFamily.weight, weights),
     hDensity |-> exactIndexOf(outFamily.hDensity, hDensities),
     vDensity |-> exactIndexOf(outFamily.vDensity, vDensities),
     style |-> exactIndexOf(outFamily.style, styles)]

\* for _, comboFamily := range fams { sourceFonts = appendMatchingFonts(...) }
RECURSIVE AppendFamilies(_, _, _, _, _)
AppendFamilies(o, fd, fams, t, n) ==
    IF n = 0 THEN o
    ELSE appendMatchingFonts(AppendFamilies(o, fd, fams, t, n - 1), Group(fd, fams[n], <<>>), t)

\* Mutant of AppendLanguages: the empty language code is not skipped.
RECURSIVE AppendLanguagesAll(_, _, _, _, _, _)
AppendLanguagesAll(o, fd, family, langs, t, n) ==
    IF n = 0 THEN o
    ELSE appendMatchingFonts(AppendLanguagesAll(o, fd, family, langs, t, n - 1),
                             Group(fd, family, langs[n]), t)

\* for _, l := range languages { if l == "" { continue }; ... }
RECURSIVE AppendLanguages(_, _, _, _, _, _)
AppendLanguages(o, fd, family, langs, t, n) ==
    IF n = 0 THEN o
    ELSE LET prev == AppendLanguages(o, fd, family, langs, t, n - 1)
         IN  IF langs[n] = <<>> THEN prev
             ELSE appendMatchingFonts(prev, Group(fd, family, langs[n]), t)

\* The sourceFonts of a generation task.
ComposeFonts(fd, langs, outFamily) ==
    LET t  == TargetOf(outFamily)
        s1 == appendMatchingFonts(<<>>, Group(fd, outFamily.inputFamily, <<>>), t)
        s2 == AppendFamilies(s1, fd, outFamily.prependComboFamilies, t,
                             Len(outFamily.prependComboFamilies))
        s3 == AppendLanguages(s2, fd, outFamily.inputFamily, langs, t, Len(langs))
    IN  AppendFamilies(s3, fd, outFamily.appendComboFamilies, t,
                       Len(outFamily.appendComboFamilies))

\* The entries an archive may hold.
NamePool ==
    <<<<"N", "o", "t", "o", "S", "a", "n", "s", "-", "R", "e", "g", "u", "l", "a", "r", ".", "t", "t", "f">>,
      <<"N", "o", "t", "o", "S", "a", "n", "s", "-", "R", "e", "g", "u", "l", "a", "r", ".", "o", "t", "f">>,
      <<"N", "o", "t", "o", "S", "a", "n", "s", "T", "h", "a", "i", "-", "R", "e", "g", "u", "l", "a", "r", ".", "t", "t", "f">>,
      <<"N", "o", "t", "o", "S", "a", "n", "s", "A", "r", "a", "b", "i", "c", "-", "B", "o", "l", "d", ".", "t", "t", "f">>,
      <<"N", "o", "t", "o", "S", "a", "n", "s", "T", "h", "a", "i", "U", "I", "-", "R", "e", "g", "u", "l", "a", "r", ".", "t", "t", "f">>,
      <<"N", "o", "t", "o", "E", "m", "o", "j", "i", "-", "R", "e", "g", "u", "l", "a", "r", ".", "t", "t", "f">>,
      <<"N", "o", "t", "o", "K", "u", "f", "i", "A", "r", "a", "b", "i", "c", "-", "R", "e", "g", "u", "l", "a", "r", ".", "t", "t", "f">>,
      <<"N", "o", "t", "o", "N", "a", "s", "k", "h", "A", "r", "a", "b", "i", "c", "-", "B", "o", "l", "d", ".", "t", "t", "f">>,
      <<"N", "o", "t", "o", "S", "a", "n", "s", "M", "o", "n", "o", "-", "R", "e", "g", "u", "l", "a", "r", ".", "t", "t", "f">>,
      <<"N", "o", "t", "o", "S", "a", "n", "s", "-", "x", "y", "z", ".", "t", "t", "f">>>>

\* The elements of a list.
Range(l) == {l[k] : k \in DOMAIN l}

\* Language codes names are put together from: none, one, one that ends in a
\* vertical-density token and one that, after Sans, spells another family.
LanguageCodes ==
    {<<>>, <<"T", "h", "a", "i">>, <<"T", "h", "a", "i", "U", "I">>, <<"M", "o", "n", "o">>}

\* Names put together from a family, a language code, and a token or nothing
\* of each axis; tail is a vertical-density token at the end of the styling.
NameParts ==
    [formed : {TRUE}, family : Range(families), language : LanguageCodes,
     vDensity : Range(vDensities), hDensity : Range(hDensities),
     weight : Range(weights) \cup {<<>>}, style : Range(styles),
     tail : Range(vDensities)]

\* Other names, with the check of the classification task that turns them away.
OtherParts ==
    {[formed |-> FALSE, reason |-> "short",
      name |-> <<"N", ".", "t", "t", "f">>],
     [formed |-> FALSE, reason |-> "short",
      name |-> <<"N", "o", "t", "o", ".", "t", "t", "f">>],
     [formed |-> FALSE, reason |-> "brand",
      name |-> <<"R", "o", "b", "o", "t", "o", "-", "R", "e", "g", "u", "l", "a", "r", ".", "t", "t", "f">>],
     [formed |-> FALSE, reason |-> "extension",
      name |-> <<"N", "o", "t", "o", "S", "a", "n", "s", "-", "R", "e", "g", "u", "l", "a", "r", ".", "w", "o", "f", "f">>],
     [formed |-> FALSE, reason |-> "extension",
      name |-> <<"N", "o", "t", "o", "S", "a", "n", "s", "-", "R", "e", "g", "u", "l", "a", "r">>],
     [formed |-> FALSE, reason |-> "separator",
      name |-> <<"N", "o", "t", "o", "S", "a", "n", "s", "R", "e", "g", "u", "l", "a", "r", ".", "t", "t", "f">>],
     [formed |-> FALSE, reason |-> "family",
      name |-> <<"N", "o", "t", "o", "M", "u", "s", "i", "c", "-", "R", "e", "g", "u", "l", "a", "r", ".", "t", "t", "f">>],
     [formed |-> FALSE, reason |-> "remainder",
      name |-> <<"N", "o", "t", "o", "S", "a", "n", "s", "-", "x", "y", "z", ".", "t", "t", "f">>],
     [formed |-> FALSE, reason |-> "none",
      name |-> <<"N", "o", "t", "o", "S", "a", "n", "s", "-", "R", "e", "g", "u", "l", "a", "r", ".", "o", "t", "f">>]}

\* The domain and the styling token of a name put together from tokens.
DomainOf(p) == p.family \o p.language \o p.vDensity
StylingOf(p) == p.hDensity \o p.weight \o p.style \o p.tail

\* f.Name of the entry put together from p.
NameOf(p) ==
    IF p.formed THEN sNoto \o DomainOf(p) \o <<"-">> \o StylingOf(p) \o sTtf ELSE p.name

ClassifyNames == {NameOf(p) : p \in NameParts \cup OtherParts}

\* The classification of every entry of the pool.
Classified == [f \in Range(NamePool) \cup ClassifyNames |-> Classify(f)]

Archives == {z \in SUBSET {NamePool[k] : k \in DOMAIN NamePool} : Cardinality(z) <= MaxFiles}

\* Every order of the elements of a set.
Orders(S) == {q \in [1 .. Cardinality(S) -> S] : \A i, j \in DOMAIN q : i # j => q[i] # q[j]}

\* fontDescriptions with an empty map made for every family.
NewTable == [k \in {families[j] : j \in DOMAIN families} |-> <<>>]

\* generateFonts after the archive is opened and the tables are made.
Init ==
    /\ pc = "classify"
    /\ zip \in Archives
    /\ finished = {}
    /\ fontDescriptions = NewTable
    /\ languageSet = {}
    /\ fontData = <<>>
    /\ egErr = <<>>
    /\ languages = <<>>
    /\ sourceFonts = <<>>
    /\ ChunkIdle
    /\ sb = NewPoolBuf /\ fresh = ZeroBuf /\ ops = 0 /\ pkg = 0
    /\ SelIdle
    /\ RestIdle

\* A classification task whose entry matches no naming pattern: return nil.
Skip ==
    /\ pc = "classify"
    /\ \E f \in zip \ finished :
        /\ ~Classified[f].ok
        /\ finished' = finished \cup {f}
    /\ UNCHANGED <<pc, chunkState2, fontState, selState, restState, zip, fontDescriptions, languageSet,
                   fontData, egErr, languages, sourceFonts>>

\* Mutant of ReadFail: the errgroup keeps the last error.
ReadFailLast ==
    /\ pc = "classify"
    /\ \E f \in zip \ finished :
        /\ Classified[f].ok
        /\ finished' = finished \cup {f}
        /\ egErr' = <<f>>
    /\ UNCHANGED <<pc, chunkState2, fontState, selState, restState, zip, fontDescriptions,
                   languageSet, fontData, languages, sourceFonts>>

\* A classification task whose f.Open or io.ReadFull fails: the errgroup keeps
\* the first error.
ReadFail ==
    /\ pc = "classify"
    /\ \E f \in zip \ finished :
        /\ Classified[f].ok
        /\ finished' = finished \cup {f}
        /\ egErr' = IF egErr = <<>> THEN <<f>> ELSE egErr
    /\ UNCHANGED <<pc, chunkState2, fontState, selState, restState, zip, fontDescriptions,
                   languageSet, fontData, languages, sourceFonts>>

\* A classification task that read its entry: the insert under dataLock.
Insert ==
    /\ pc = "classify"
    /\ \E f \in zip \ finished :
        LET c == Classified[f]
        IN  /\ c.ok
            /\ finished' = finished \cup {f}
            /\ fontDescriptions' = InsertDesc(fontDescriptions, c.familyName, c.language, c.d)
            /\ languageSet' = languageSet \cup {c.language}
            /\ fontData' = [n \in (DOMAIN fontData) \cup {f} |->
                               IF n = f THEN Contents(f) ELSE fontData[n]]
    /\ UNCHANGED <<pc, chunkState2, fontState, selState, restState, zip, egErr, languages, sourceFonts>>

\* eg.Wait() returns an error: generateFonts returns it.
ClassifyFailed ==
    /\ pc = "classify"
    /\ finished = zip
    /\ egErr # <<>>
    /\ pc' = "failed"
    /\ UNCHANGED <<chunkState2, fontState, selState, restState, genState>>

\* eg.Wait() returns nil: the languages are ranged over in some order and sorted.
SortLanguages ==
    /\ pc = "classify"
    /\ finished = zip
    /\ egErr = <<>>
    /\ \E q \in Orders(languageSet) : languages' = SortStrings(q)
    /\ pc' = "generate"
    /\ UNCHANGED <<chunkState2, fontState, selState, restState, zip, finished, fontDescriptions,
                   languageSet, fontData, egErr, sourceFonts>>

\* Mutant of Compose: a lookup of a language group stores the group it
\* returns, so a language the primary family lacks gets an empty entry.
ComposeStoring ==
    /\ pc = "generate"
    /\ \E p \in (DOMAIN outputFamilies) \ (DOMAIN sourceFonts) :
        /\ sourceFonts' = [k \in (DOMAIN sourceFonts) \cup {p} |->
                           IF k = p THEN ComposeFonts(fontDescriptions, languages, outputFamilies[p])
                           ELSE sourceFonts[k]]
        /\ fontDescriptions' =
               [fontDescriptions EXCEPT ![outputFamilies[p].inputFamily] =
                   [l \in (DOMAIN @) \cup Range(languages) |->
                       Group(fontDescriptions, outputFamilies[p].inputFamily, l)]]
    /\ UNCHANGED <<pc, chunkState2, fontState, selState, restState, zip, finished,
                   languageSet, fontData, egErr, languages>>

\* A generation task building its sourceFonts.
Compose ==
    /\ pc = "generate"
    /\ \E p \in (DOMAIN outputFamilies) \ (DOMAIN sourceFonts) :
        sourceFonts' = [k \in (DOMAIN sourceFonts) \cup {p} |->
                           IF k = p THEN ComposeFonts(fontDescriptions, languages, outputFamilies[p])
                           ELSE sourceFonts[k]]
    /\ UNCHANGED <<pc, chunkState2, fontState, selState, restState, zip, finished, fontDescriptions,
                   languageSet, fontData, egErr, languages>>

Next == Skip \/ ReadFail \/ Insert \/ ClassifyFailed \/ SortLanguages \/ Compose

Spec == Init /\ [][Next]_vars

\* generateFonts over an archive of one entry, up to the end of its
\* classification task.
InitClassify ==
    /\ pc = "classify"
    /\ parts \in NameParts \cup OtherParts
    /\ zip = {NameOf(parts)}
    /\ finished = {}
    /\ fontDescriptions = NewTable
    /\ languageSet = {}
    /\ fontData = <<>>
    /\ egErr = <<>>
    /\ languages = <<>>
    /\ sourceFonts = <<>>
    /\ ChunkIdle
    /\ sb = NewPoolBuf /\ fresh = ZeroBuf /\ ops = 0 /\ pkg = 0
    /\ SelIdle
    /\ PoolIdle /\ OnceIdle

NextClassify == Skip \/ ReadFail \/ Insert

SpecClassify == InitClassify /\ [][NextClassify]_vars

----------------------------------------------------------------------------
(* The generation phase of generateFonts: the goroutine that owns the      *)
(* buffers, and one task per output package that takes a buffer from       *)
(* availableBufs, runs generateFont and gives the buffer back on           *)
(* recycleBufs when it returns.  Both channels are unbuffered, so a send   *)
(* and its receive are one step.                                           *)

\* What the generation phase leaves alone.
notPool == <<chunkState2, fontState, selState, genState, clsState, onceState>>

Packages == DOMAIN outputFamilies

\* The pool goroutine has made its buffers and every task waits on
\* availableBufs.
InitPool ==
    /\ pc = "generate"
    /\ cpus \in 1 .. MaxCPU
    /\ bufs = [k \in 1 .. cpus |-> k]
    /\ task = [p \in Packages |-> "acquire"]
    /\ holds = [p \in Packages |-> 0]
    /\ genErr = 0
    /\ outputs = {}
    /\ ChunkIdle
    /\ sb = NewPoolBuf /\ fresh = ZeroBuf /\ ops = 0 /\ pkg = 0
    /\ SelIdle
    /\ GenIdle
    /\ ClsIdle /\ OnceIdle

\* Mutant of Acquire: the pool goroutine hands out its last buffer and keeps
\* it in bufs.
AcquireKeep(p) ==
    /\ pc = "generate"
    /\ task[p] = "acquire"
    /\ Len(bufs) > 0
    /\ holds' = [holds EXCEPT ![p] = bufs[Len(bufs)]]
    /\ task' = [task EXCEPT ![p] = "generate"]
    /\ UNCHANGED <<pc, notPool, cpus, bufs, genErr, outputs>>

\* buf := <-availableBufs, met by the pool goroutine's send of
\* bufs[len(bufs)-1], which it can make only when len(bufs) > 0.
Acquire(p) ==
    /\ pc = "generate"
    /\ task[p] = "acquire"
    /\ Len(bufs) > 0
    /\ holds' = [holds EXCEPT ![p] = bufs[Len(bufs)]]
    /\ bufs' = SubSeq(bufs, 1, Len(bufs) - 1)
    /\ task' = [task EXCEPT ![p] = "generate"]
    /\ UNCHANGED <<pc, notPool, cpus, genErr, outputs>>

\* generateFont returns nil, with the package's files written, or an error.
GenerateFont(p) ==
    /\ pc = "generate"
    /\ task[p] = "generate"
    /\ \E err \in BOOLEAN :
        /\ task' = [task EXCEPT ![p] = IF err THEN "failed" ELSE "ok"]
        /\ outputs' = IF err THEN outputs ELSE outputs \cup {p}
    /\ UNCHANGED <<pc, notPool, cpus, bufs, holds, genErr>>

\* Mutant of Recycle: the buffer goes back only when generateFont returned
\* nil.
RecycleOnSuccess(p) ==
    /\ pc = "generate"
    /\ task[p] \in {"ok", "failed"}
    /\ bufs' = IF task[p] = "ok" THEN Append(bufs, holds[p]) ELSE bufs
    /\ holds' = [holds EXCEPT ![p] = 0]
    /\ task' = [task EXCEPT ![p] = "done"]
    /\ genErr' = IF task[p] = "failed" /\ genErr = 0 THEN p ELSE genErr
    /\ UNCHANGED <<pc, notPool, cpus, outputs>>

\* The deferred recycleBufs <- buf, met by the pool goroutine's receive and
\* append, and the task's return to the errgroup, which keeps the first error.
Recycle(p) ==
    /\ pc = "generate"
    /\ task[p] \in {"ok", "failed"}
    /\ bufs' = Append(bufs, holds[p])
    /\ holds' = [holds EXCEPT ![p] = 0]
    /\ task' = [task EXCEPT ![p] = "done"]
    /\ genErr' = IF task[p] = "failed" /\ genErr = 0 THEN p ELSE genErr
    /\ UNCHANGED <<pc, notPool, cpus, outputs>>

\* Mutant of WaitGenerate: eg.Wait() returns as soon as the errgroup holds an
\* error.
WaitGenerateEarly ==
    /\ pc = "generate"
    /\ genErr # 0 \/ \A p \in Packages : task[p] = "done"
    /\ pc' = IF genErr = 0 THEN "returned" ELSE "failed"
    /\ UNCHANGED <<notPool, poolState>>

\* eg.Wait() returns when every task has returned; generateFonts returns nil
\* or the wrapped error.
WaitGenerate ==
    /\ pc = "generate"
    /\ \A p \in Packages : task[p] = "done"
    /\ pc' = IF genErr = 0 THEN "returned" ELSE "failed"
    /\ UNCHANGED <<notPool, poolState>>

NextPool ==
    \/ \E p \in Packages : Acquire(p)
    \/ \E p \in Packages : GenerateFont(p)
    \/ \E p \in Packages : Recycle(p)
    \/ WaitGenerate

SpecPool == InitPool /\ [][NextPool]_vars

\* The scheduler runs every goroutine that can take a step, and a select
\* with a ready case proceeds.
FairPool ==
    /\ \A p \in Packages : WF_vars(Acquire(p)) /\ WF_vars(GenerateFont(p)) /\ WF_vars(Recycle(p))
    /\ WF_vars(WaitGenerate)

SpecPoolFair == SpecPool /\ FairPool

----------------------------------------------------------------------------
(* Properties of the chunk encoder.                                        *)

Built == pc \in {"built", "done"}

\* The bytes a chunk file holds, words turned back least significant first.
FileBytes(c) == Flatten([w \in 1 .. Len(files[c]) |-> WordBytes(ParseWord(files[c][w]))])

CeilDiv(a, b) == (a + b - 1) \div b

\* C1: chunk round trip.  Once OTC has run, the buffer it returns (the chunks
\* of the manifest in order, each word turned into bytes least significant
\* first, decompressed, cut to the declared length) is exactly the blob that
\* was handed to generateChunks.
C1_RoundTrip == pc = "done" => otcData = data

\* C1 witness: a decoded blob of several chunks whose last chunk is padded.
C1_Witness ==
    /\ pc = "done"
    /\ Len(manifest.chunks) >= 2
    /\ counts[Len(manifest.chunks) - 1] % WordSize # 0
    /\ \E k \in DOMAIN data : data[k] # 0
    /\ otcData = data

\* C2: for a compressed stream of L bytes, exactly ceil(L / chunkSize) chunks
\* are written and listed, as chunk0, chunk1, ... in ascending order; every
\* chunk holds at most chunkSize compressed bytes, every chunk but the last
\* exactly chunkSize, none is empty, and no other chunk file remains.
C2_ChunkCount ==
    Built =>
        LET k == CeilDiv(Len(piped), chunkSize)
        IN  /\ manifest.chunks = [c \in 1 .. k |-> c - 1]
            /\ DOMAIN files = 0 .. (k - 1)
            /\ \A c \in 0 .. (k - 1) :
                /\ counts[c] > 0
                /\ counts[c] <= chunkSize
                /\ (c < k - 1 => counts[c] = chunkSize)
                /\ Len(FileBytes(c)) = WordSize * CeilDiv(counts[c], WordSize)

\* C2 witness: a stream of exactly two full chunks, so that the read after the
\* last chunk finds the pipe empty.
C2_Witness ==
    /\ Built
    /\ Len(piped) = 2 * chunkSize
    /\ Len(manifest.chunks) = 2

\* C2 witness of the empty stream: no chunk at all.
C2_WitnessEmpty == Built /\ piped = <<>> /\ manifest.chunks = <<>>

\* C3 as claimed: an empty blob handed to generateChunks leaves no chunk file
\* and an empty chunk list.
C3_EmptyBlobNoChunks ==
    (Built /\ data = <<>>) => (manifest.chunks = <<>> /\ DOMAIN files = {})

\* C3 as amended: an empty blob is still compressed to a non-empty stream
\* (header and trailer), so it gives exactly one chunk, chunk0, holding that
\* stream; no empty chunk file remains and the manifest declares size 0.
C3_EmptyBlobOneChunk ==
    (Built /\ data = <<>>) =>
        /\ manifest.chunks = <<0>>
        /\ DOMAIN files = {0}
        /\ counts[0] = Len(piped)
        /\ Len(piped) > 0
        /\ Atoi(manifest.decompressedSize) = 0

\* C3 witness: the manifest of an empty blob.
C3_Witness == pc = "built" /\ data = <<>> /\ manifest.written

\* C4: in every emitted chunk, each byte of the file beyond the compressed
\* bytes read into it is zero.
C4_PadZero ==
    Built =>
        \A c \in DOMAIN files :
            \A k \in 1 .. Len(FileBytes(c)) : k > counts[c] => FileBytes(c)[k] = 0

----------------------------------------------------------------------------
(* Properties of generateFont on a pooled buffer.                          *)

\* C5: manifest consistency.  The decompressedSize written to the manifest is
\* the length of the merged blob (what the merge wrote, as a new buffer would
\* hold it), and that blob is what was compressed into the pipe, also when
\* the buffer served an earlier package.
C5_ManifestSize ==
    (pc = "built") =>
        /\ Atoi(manifest.decompressedSize) = fresh.len
        /\ piped = Gzip(BufOf(fresh))

\* C5 witness: the manifest of a second package whose blob is shorter than the
\* blob the buffer held before.
C5_Witness ==
    /\ pc = "built"
    /\ pkg = 1
    /\ fresh.len > 0
    /\ \E k \in (fresh.len + 1) .. Len(sb.arr) : sb.arr[k] # 0

----------------------------------------------------------------------------
(* Properties of the selector.                                             *)

Selected == pc = "selected"

StyleDist(d) == Abs(target.style - d.style)
WeightDist(d) == Abs(target.weight - d.weight)
HDensityDist(d) == Abs(target.hDensity - d.hDensity)
VDensityDist(d) == Abs(target.vDensity - d.vDensity)

\* C6: selector uniqueness.  For a non-empty collection exactly one of its
\* candidates is appended and no candidate has a strictly lower distance; for
\* an empty collection nothing is appended.
C6_Unique ==
    Selected =>
        IF descriptions = <<>> THEN out = <<>>
        ELSE /\ Len(out) = 1
             /\ \E k \in DOMAIN descriptions : out[1] = descriptions[k]
             /\ \A j \in DOMAIN descriptions :
                    ~I64Less(descDistance(descriptions[j], target), descDistance(out[1], target))

\* C6 witness: the second of two candidates is nearer and is the one appended.
C6_Witness ==
    /\ Selected
    /\ Len(descriptions) = 2
    /\ out = <<descriptions[2]>>
    /\ I64Less(descDistance(descriptions[2], target), descDistance(descriptions[1], target))

\* The tuple the claim compares: the four differences in priority order, then
\* the raw indices, larger first.
LexKey(d) ==
    <<StyleDist(d), WeightDist(d), HDensityDist(d), VDensityDist(d),
      0 - d.style, 0 - d.weight, 0 - d.hDensity, 0 - d.vDensity>>

RECURSIVE LexLess(_, _)
LexLess(a, b) ==
    /\ a # <<>>
    /\ \/ Head(a) < Head(b)
       \/ (Head(a) = Head(b) /\ LexLess(Tail(a), Tail(b)))

\* The first candidate no other precedes in the tuple order.
LexChoice ==
    CHOOSE k \in DOMAIN descriptions :
        /\ \A j \in DOMAIN descriptions : ~LexLess(LexKey(descriptions[j]), LexKey(descriptions[k]))
        /\ \A j \in 1 .. (k - 1) : LexLess(LexKey(descriptions[k]), LexKey(descriptions[j]))

\* C7: the scalar distance is a strict lexicographic order.  The candidate
\* the weighted scalar selects is the one the tuple comparison (style, weight,
\* hDensity, vDensity difference, then the index tie-break) selects.
C7_Lexicographic ==
    (Selected /\ descriptions # <<>>) => out = <<descriptions[LexChoice]>>

\* C7 witness: a candidate of the right style at the largest weight difference
\* is selected over one of the wrong style at no weight difference.
C7_Witness ==
    /\ Selected
    /\ Len(out) = 1
    /\ StyleDist(out[1]) = 0
    /\ WeightDist(out[1]) = NumWeights - 1
    /\ \E j \in DOMAIN descriptions :
        StyleDist(descriptions[j]) = 1 /\ WeightDist(descriptions[j]) = 0

C9_Case ==
    /\ Selected
    /\ target.weight = 5
    /\ {2, 5, 7} \subseteq {descriptions[k].weight : k \in DOMAIN descriptions}

\* C9 as claimed: a group with descriptors at the weights 2, 5 and 7, whatever
\* their other axis values, gives the descriptor at weight 5 for target weight 5.
C9_WeightFive == C9_Case => (Len(out) = 1 /\ out[1].weight = 5)

\* C9 as amended: it does so whenever a descriptor at weight 5 is among those
\* whose style is nearest to the target's (style outranks weight), whatever
\* the hDensity and vDensity values.
C9_WeightFiveSameStyle ==
    (C9_Case /\ \E k \in DOMAIN descriptions :
                    /\ descriptions[k].weight = 5
                    /\ \A j \in DOMAIN descriptions :
                           StyleDist(descriptions[k]) <= StyleDist(descriptions[j]))
    => (Len(out) = 1 /\ out[1].weight = 5)

\* C9 witness: the descriptor at weight 5 is selected although its densities
\* are the worst match and those of the others the best.
C9_Witness ==
    /\ C9_Case
    /\ Len(out) = 1
    /\ out[1].weight = 5
    /\ HDensityDist(out[1]) = NumHDensities - 1
    /\ VDensityDist(out[1]) = 1
    /\ \A j \in DOMAIN descriptions :
        descriptions[j].weight # 5 =>
            HDensityDist(descriptions[j]) = 0 /\ VDensityDist(descriptions[j]) = 0

\* The four differences of a candidate, whose weighted sum is the first part
\* of its distance, and its raw indices in the order of their weights.
Differences(d) == <<StyleDist(d), WeightDist(d), HDensityDist(d), VDensityDist(d)>>
RawIndices(d) == <<d.style, d.weight, d.hDensity, d.vDensity>>

\* Among the candidates with the differences of the selected one, none has
\* larger raw indices.
TieBreakDirection ==
    (Selected /\ descriptions # <<>>) =>
        /\ Len(out) = 1
        /\ \A j \in DOMAIN descriptions :
            Differences(descriptions[j]) = Differences(out[1]) =>
                ~LexLess(RawIndices(out[1]), RawIndices(descriptions[j]))

\* No two candidates of the group have the same distance.
NoEqualDistance ==
    \A i, j \in DOMAIN descriptions :
        i # j => descDistance(descriptions[i], target) # descDistance(descriptions[j], target)

\* C18: among candidates with an equal weighted sum of differences the one
\* selected has the larger raw indices, compared in the order style, weight,
\* hDensity, vDensity, and no two candidates of the group have the same
\* distance.
C18_TieBreak == TieBreakDirection /\ NoEqualDistance

----------------------------------------------------------------------------
(* Properties of generateFonts.                                            *)

\* The entries of an archive that the classification accepts.
Accepted(z) == {f \in z : Classified[f].ok}

\* The table built when the inserts happen in the order q.
RECURSIVE TableOf(_, _)
TableOf(q, n) ==
    IF n = 0 THEN NewTable
    ELSE LET c == Classified[q[n]]
         IN  InsertDesc(TableOf(q, n - 1), c.familyName, c.language, c.d)

\* C8: over one archive, the sourceFonts of every package are those composed
\* from the table of any order in which the classification tasks could have
\* appended the accepted entries to their groups.
C8_OrderIndependent ==
    pc = "generate" =>
        \A p \in DOMAIN sourceFonts :
            \A q \in Orders(Accepted(zip)) :
                sourceFonts[p] =
                    ComposeFonts(TableOf(q, Len(q)), languages, outputFamilies[p])

\* The selection from the group of a family and a language: empty when the
\* group has no descriptor.
Selection(family, language, t) ==
    appendMatchingFonts(<<>>, Group(fontDescriptions, family, language), t)

\* The elements of a set of strings in ascending order.
Ascending(S) ==
    CHOOSE q \in Orders(S) : \A i, j \in DOMAIN q : i < j => StrLess(q[i], q[j])

\* The concatenation of the first n sequences of qs.
RECURSIVE Concat(_, _)
Concat(qs, n) == IF n = 0 THEN <<>> ELSE Concat(qs, n - 1) \o qs[n]

\* The sequence a package is to be merged from, by the four steps of the
\* composer.
MergeSequence(p) ==
    LET o     == outputFamilies[p]
        t     == TargetOf(o)
        langs == Ascending(languageSet \ {<<>>})
        pre   == [k \in DOMAIN o.prependComboFamilies |->
                     Selection(o.prependComboFamilies[k], <<>>, t)]
        mid   == [k \in DOMAIN langs |-> Selection(o.inputFamily, langs[k], t)]
        post  == [k \in DOMAIN o.appendComboFamilies |->
                     Selection(o.appendComboFamilies[k], <<>>, t)]
    IN  Selection(o.inputFamily, <<>>, t) \o Concat(pre, Len(pre))
            \o Concat(mid, Len(mid)) \o Concat(post, Len(post))

\* C10: the sourceFonts of every package are the primary family's selection
\* for the empty language, then the empty-language selection of each
\* prepend-combo family in declared order, then the primary family's
\* selection for each non-empty language in ascending order, then the
\* empty-language selection of each append-combo family in declared order,
\* a step without a match adding nothing.
C10_ComposerOrder ==
    \A p \in DOMAIN sourceFonts : sourceFonts[p] = MergeSequence(p)

\* A package composed of a primary entry, a prepend-combo entry, the entries
\* of two languages and an append-combo entry.
C10_Witness ==
    \E p \in DOMAIN sourceFonts :
        LET s == sourceFonts[p]
            o == outputFamilies[p]
            c == [k \in DOMAIN s |-> Classified[s[k].filename]]
        IN  /\ Len(s) = 5
            /\ c[1].familyName = o.inputFamily /\ c[1].language = <<>>
            /\ c[2].familyName = o.prependComboFamilies[1] /\ c[2].language = <<>>
            /\ c[3].familyName = o.inputFamily /\ c[4].familyName = o.inputFamily
            /\ c[3].language # <<>> /\ StrLess(c[3].language, c[4].language)
            /\ \E k \in DOMAIN o.appendComboFamilies :
                c[5].familyName = o.appendComboFamilies[k]

\* The (family, language) group an entry of a sourceFonts list was taken from.
GroupKey(d) == <<Classified[d.filename].familyName, Classified[d.filename].language>>

----------------------------------------------------------------------------
(* Properties of the classification task.                                  *)

\* The task of the one entry has returned, having read and recorded it.
Recorded == finished = zip /\ fontData # <<>>

\* The index (from 0) of a token in the list of its axis.
IndexIn(token, l) == (CHOOSE k \in DOMAIN l : l[k] = token) - 1

\* The first family in declared order that prefixes a domain token.
FirstFamily(domain) ==
    families[CHOOSE k \in DOMAIN families :
                 /\ HasPrefix(domain, families[k])
                 /\ \A j \in 1 .. (k - 1) : ~HasPrefix(domain, families[j])]

\* The rest of a domain token after its family.
RestOf(domain) == SubSeq(domain, Len(FirstFamily(domain)) + 1, Len(domain))

\* A name of the form brand, family, language, "-", then the tokens of
\* hDensity, weight and style that are present, then the extension.
PlainForm == parts.formed /\ parts.vDensity = <<>> /\ parts.tail = <<>>

\* The axes of the name's styling: the index of each token, Regular for no
\* weight token.
StylingAxes ==
    [weight   |-> IF parts.weight = <<>> THEN IndexIn(sRegular, weights)
                  ELSE IndexIn(parts.weight, weights),
     hDensity |-> IndexIn(parts.hDensity, hDensities),
     style    |-> IndexIn(parts.style, styles)]

\* The table holds one descriptor, of the entry, under (family, language), with
\* vertical density v and the axes of the styling.
RecordedAs(family, language, v) ==
    /\ languageSet = {language}
    /\ \A f \in DOMAIN fontDescriptions :
        DOMAIN fontDescriptions[f] = IF f = family THEN {language} ELSE {}
    /\ fontDescriptions[family][language] =
        <<[filename |-> NameOf(parts), weight |-> StylingAxes.weight,
           hDensity |-> StylingAxes.hDensity, vDensity |-> v,
           style |-> StylingAxes.style]>>

\* C12 as stated: a name of the plain form is accepted with family the first
\* entry that prefixes the domain, language the rest of the domain, the axes
\* of the styling, and vertical density the index of the empty entry.
C12_ClassifierResult ==
    PlainForm /\ finished = zip =>
        /\ fontData # <<>> \/ egErr # <<>>
        /\ Recorded =>
            RecordedAs(FirstFamily(DomainOf(parts)), RestOf(DomainOf(parts)),
                       IndexIn(<<>>, vDensities))

\* C12 amended: as C12, but a vertical-density token at the end of the domain
\* is not part of the language and gives the vertical density.
C12_ClassifierResultUI ==
    parts.formed /\ parts.tail = <<>> /\ finished = zip =>
        /\ fontData # <<>> \/ egErr # <<>>
        /\ Recorded =>
            LET rest == RestOf(DomainOf(parts))
            IN  IF HasSuffix(rest, sUI)
                THEN RecordedAs(FirstFamily(DomainOf(parts)),
                                SubSeq(rest, 1, Len(rest) - Len(sUI)),
                                IndexIn(sUI, vDensities))
                ELSE RecordedAs(FirstFamily(DomainOf(parts)), rest,
                                IndexIn(<<>>, vDensities))

\* A recorded name of the plain form whose language code ends in the
\* vertical-density token, with no weight token and a longer family winning.
C12_Witness ==
    /\ PlainForm
    /\ Recorded
    /\ HasSuffix(parts.language, sUI)
    /\ parts.weight = <<>>
    /\ parts.family = <<"S", "a", "n", "s", "M", "o", "n", "o">>

\* A name that one of the checks of the task turns away: it is too short, has
\* another brand or extension, no separator, no family, or styling left over
\* after the axis matches.
TurnedAway ==
    \/ ~parts.formed /\ parts.reason # "none"
    \/ parts.formed /\ parts.tail # <<>>

\* C13: when the task of a name that is turned away has returned, the table,
\* the language set and the font data are as they were made and the errgroup
\* holds no error.
C13_RejectedUnrecorded ==
    TurnedAway /\ finished = zip =>
        /\ fontDescriptions = NewTable
        /\ languageSet = {}
        /\ fontData = <<>>
        /\ egErr = <<>>

\* The task of a name with styling that matches no axis entry has returned.
C13_Witness ==
    /\ finished = zip
    /\ ~parts.formed
    /\ parts.reason = "remainder"

\* A token that ends in the vertical-density token "UI", and the token
\* without it.
EndsInUI(token) ==
    Len(token) >= Len(sUI) /\ SubSeq(token, Len(token) - Len(sUI) + 1, Len(token)) = sUI
WithoutUI(token) == SubSeq(token, 1, Len(token) - Len(sUI))

\* C19 as stated: the vertical density is the one whose token ends the
\* styling, the other axes are matched on the rest of the styling, and the
\* language is the whole rest of the domain after the family.
C19_StylingOnly ==
    parts.formed /\ finished = zip /\ egErr = <<>> =>
        /\ Recorded
        /\ RecordedAs(FirstFamily(DomainOf(parts)), RestOf(DomainOf(parts)),
                      IndexIn(parts.tail, vDensities))

\* C19 amended: the vertical density is matched by suffix on the rest of the
\* domain after the family, and the language is what is left of it; style,
\* hDensity and weight are matched on the styling, and a styling that ends in
\* the vertical-density token is not consumed, so the name is turned away.
C19_DomainThenStyling ==
    parts.formed /\ finished = zip /\ egErr = <<>> =>
        LET family == FirstFamily(DomainOf(parts))
            rest   == RestOf(DomainOf(parts))
        IN  IF parts.tail # <<>>
            THEN fontData = <<>> /\ fontDescriptions = NewTable /\ languageSet = {}
            ELSE /\ Recorded
                 /\ IF EndsInUI(rest)
                    THEN RecordedAs(family, WithoutUI(rest), IndexIn(sUI, vDensities))
                    ELSE RecordedAs(family, rest, IndexIn(<<>>, vDensities))

\* A recorded name with a language code, the vertical-density token after it
\* in the domain, and a token of every axis in the styling.
C19_Witness ==
    /\ parts.formed
    /\ Recorded
    /\ parts.language = <<"T", "h", "a", "i">>
    /\ parts.vDensity = sUI
    /\ parts.hDensity # <<>> /\ parts.weight # <<>> /\ parts.style # <<>>

----------------------------------------------------------------------------
(* Properties of the buffer pool.                                          *)

\* The tasks that hold a buffer, and the tasks between taking a buffer and
\* giving it back.
Holders == {p \in Packages : holds[p] # 0}
Inside == {p \in Packages : task[p] \in {"generate", "ok", "failed"}}

\* Every buffer is either free in the pool or held by one task.
PoolInv ==
    /\ Cardinality(Holders) + Len(bufs) = cpus
    /\ \A p, q \in Holders : p # q => holds[p] # holds[q]
    /\ \A p \in Holders : \A k \in DOMAIN bufs : bufs[k] # holds[p]
    /\ \A i, j \in DOMAIN bufs : i # j => bufs[i] # bufs[j]
    /\ Inside = Holders
    /\ Cardinality(Inside) <= cpus

\* A task gets past availableBufs only by taking a buffer that was free.
AcquireWaits ==
    \A p \in Packages :
        task[p] = "acquire" /\ task'[p] # "acquire" =>
            /\ Len(bufs) > 0
            /\ holds'[p] = bufs[Len(bufs)]
            /\ Len(bufs') = Len(bufs) - 1

\* C14: the buffers held by tasks and the buffers free in the pool are
\* together the cpus buffers that were made, no buffer is held by two tasks,
\* at most cpus tasks are inside generateFont, and a task takes a buffer only
\* when one is free.
C14_PoolBound == []PoolInv /\ [][AcquireWaits]_vars

\* Every buffer is held and another task waits on availableBufs.
C14_Witness ==
    /\ pc = "generate"
    /\ bufs = <<>>
    /\ Cardinality(Holders) = cpus
    /\ cpus > 1
    /\ \E p \in Packages : task[p] = "acquire"

\* generateFonts has returned with every task done and every buffer back in
\* the pool.
PhaseOver ==
    /\ pc \in {"returned", "failed"}
    /\ \A p \in Packages : task[p] = "done"
    /\ Len(bufs) = cpus

\* C15: a task that has returned holds no buffer, whether generateFont gave
\* nil or an error; every task at some time holds a buffer; and the
\* generation phase ends with all the buffers in the pool.
C15_ReleaseAndProgress ==
    /\ [](\A p \in Packages : task[p] = "done" => holds[p] = 0)
    /\ \A p \in Packages : <>(holds[p] # 0)
    /\ <>[]PhaseOver

\* The phase is over after a task failed, with fewer buffers than packages.
C15_Witness ==
    /\ PhaseOver
    /\ pc = "failed"
    /\ cpus < Cardinality(Packages)

----------------------------------------------------------------------------
(* Properties of OTC().                                                    *)

\* C16: under every interleaving of the callers the function given to
\* initOnce.Do runs at most once, and every call returns, only after that
\* function has returned, the one buffer otcData holding the whole blob.
C16_OnceSafe ==
    pc = "imported" =>
        /\ decoded <= 1
        /\ \A c \in Callers :
            returned[c] # NotReturned =>
                /\ once = "done"
                /\ decoded = 1
                /\ returned[c] = otcData
                /\ returned[c] = data

\* The caller that ran the function has returned a blob that is not empty
\* while another caller, which came while the function ran, is still in Do.
C16_Witness ==
    /\ pc = "imported"
    /\ Len(data) > 0
    /\ \E c, d \in Callers :
        /\ returned[c] # NotReturned
        /\ callers[d] = "wait"

----------------------------------------------------------------------------
(* Properties of the classification phase.                                 *)

\* After a failed read no generation task runs and nothing is written.
NoGeneration ==
    /\ pc \in {"classify", "failed"}
    /\ languages = <<>>
    /\ sourceFonts = <<>>
    /\ files = <<>>
    /\ ~manifest.written

\* The errgroup's error is that of the first task that failed, and is kept.
FirstErrorKept ==
    /\ egErr # <<>> => egErr' = egErr
    /\ egErr = <<>> /\ egErr' # <<>> =>
        \E f \in zip \ finished : finished' = finished \cup {f} /\ egErr' = <<f>>

\* C17: once the read of an accepted entry has failed, the error kept is that
\* first one, generateFonts returns it only when every classification task
\* has returned, and no generation task is started and no artifact written.
C17_ClassificationAborts ==
    /\ [](egErr # <<>> => NoGeneration)
    /\ [](pc = "failed" => finished = zip /\ egErr # <<>>)
    /\ [][FirstErrorKept]_vars

\* generateFonts has returned the error of an archive in which two reads
\* failed and another entry was read and recorded.
C17_Witness ==
    /\ pc = "failed"
    /\ fontData # <<>>
    /\ Cardinality(Accepted(zip)) >= Cardinality(DOMAIN fontData) + 2

\* The entries read and recorded so far whose descriptor belongs in the
\* group of a family and a language.
RecordedIn(family, language) ==
    {f \in DOMAIN fontData :
        Classified[f].familyName = family /\ Classified[f].language = language}

\* C20: under every interleaving of the classification tasks each group of
\* the table holds, once each, the descriptors of the entries recorded so far
\* that classify to its family and language, the language set holds their
\* languages and the font data their bytes; and when the phase completes the
\* recorded entries are the accepted entries of the archive.
C20_NoLostUpdates ==
    /\ \A family \in DOMAIN fontDescriptions :
        \A language \in DOMAIN fontDescriptions[family] :
            LET g == fontDescriptions[family][language]
            IN  /\ g # <<>>
                /\ \A i, j \in DOMAIN g : i # j => g[i] # g[j]
                /\ Range(g) = {Classified[f].d : f \in RecordedIn(family, language)}
    /\ \A f \in DOMAIN fontData :
        /\ Classified[f].ok
        /\ Classified[f].language \in DOMAIN fontDescriptions[Classified[f].familyName]
        /\ fontData[f] = Contents(f)
    /\ languageSet = {Classified[f].language : f \in DOMAIN fontData}
    /\ pc = "generate" => DOMAIN fontData = Accepted(zip)

\* The phase has completed with a group of two descriptors and three
\* languages.
C20_Witness ==
    /\ pc = "generate"
    /\ Cardinality(languageSet) = 3
    /\ \E family \in DOMAIN fontDescriptions :
        \E language \in DOMAIN fontDescriptions[family] :
            Len(fontDescriptions[family][language]) = 2

\* ---------------------------------------------------------------------------
\* The barrier between the two phases
\* ---------------------------------------------------------------------------

\* The state the generation tasks read.
sharedTables == <<fontDescriptions, languages, languageSet, fontData>>

\* Some language of the list has no group in the primary family of a package
\* that has been composed, and a combo family of a composed package has no
\* group at all.
MissingLookups ==
    /\ \E p \in DOMAIN sourceFonts : \E i \in DOMAIN languages :
          /\ languages[i] # <<>>
          /\ Group(fontDescriptions, outputFamilies[p].inputFamily, languages[i]) = <<>>
    /\ \E p \in DOMAIN sourceFonts : \E i \in DOMAIN outputFamilies[p].appendComboFamilies :
          Group(fontDescriptions, outputFamilies[p].appendComboFamilies[i], <<>>) = <<>>

\* C21: a generation task has composed its fonts only in the generation
\* phase, which is entered only once every classification task has finished
\* without an error; and from the generation phase on no step changes
\* fontDescriptions, the language list, the language set or fontData, the
\* lookups of missing families and languages included.
C21_PhaseBarrier ==
    /\ [](DOMAIN sourceFonts # {} => pc = "generate")
    /\ [](pc = "generate" => finished = zip /\ egErr = <<>>)
    /\ [][pc = "generate" => /\ pc' = "generate"
                              /\ UNCHANGED sharedTables]_vars

C21_Witness ==
    /\ pc = "generate"
    /\ DOMAIN sourceFonts = DOMAIN outputFamilies
    /\ fontData # <<>>
    /\ MissingLookups

\* ---------------------------------------------------------------------------
\* Failure in the generation phase
\* ---------------------------------------------------------------------------

\* The tasks that have returned an error to the errgroup.
ReturnedError == {p \in Packages : task[p] = "done" /\ p \notin outputs}

\* generateFonts has returned.
Over == pc \in {"returned", "failed"}

\* A step leaves a returned task returned, a generateFont call that was made
\* made, and every written package written.
NoRetryNoRollback ==
    /\ \A p \in Packages : task[p] = "done" => task'[p] = "done"
    /\ \A p \in Packages : task[p] \in {"ok", "failed"} => task'[p] \in {task[p], "done"}
    /\ outputs \subseteq outputs'

\* A step sets the errgroup's error only when it is nil, to the task that
\* returns an error in that step.
FirstFailureKept ==
    /\ genErr # 0 => genErr' = genErr
    /\ genErr = 0 /\ genErr' # 0 =>
          /\ ReturnedError = {}
          /\ task[genErr'] = "failed"
          /\ task'[genErr'] = "done"

\* C22: generateFonts has returned only when every generation task has
\* returned; it has returned an error exactly when some task returned one;
\* the error kept is that of the first task that returned one; no task runs
\* generateFont again; and no written package is ever taken back, the return
\* with an error included.
C22_GenerationFailure ==
    /\ [](Over => \A p \in Packages : task[p] = "done")
    /\ [](Over => (pc = "failed" <=> ReturnedError # {}))
    /\ [](ReturnedError # {} <=> genErr # 0)
    /\ [](genErr # 0 => genErr \in ReturnedError)
    /\ [][FirstFailureKept]_vars
    /\ [][NoRetryNoRollback]_vars

\* generateFonts returned an error with two tasks failed, the one kept not
\* the first in declared order, and a package written.
C22_Witness ==
    /\ pc = "failed"
    /\ Cardinality(ReturnedError) >= 2
    /\ \E p \in ReturnedError : p < genErr
    /\ outputs # {}

\* ---------------------------------------------------------------------------
\* The length of a package's sourceFonts
\* ---------------------------------------------------------------------------

\* The languages whose group in a family holds a descriptor.
NonEmptyGroups(family) ==
    {l \in DOMAIN fontDescriptions[family] : fontDescriptions[family][l] # <<>>}

\* The non-empty language groups of the primary family plus the combo
\* families of a package.
LengthBound(p) ==
    Cardinality(NonEmptyGroups(outputFamilies[p].inputFamily))
        + Len(outputFamilies[p].prependComboFamilies)
        + Len(outputFamilies[p].appendComboFamilies)

\* The entries of a sourceFonts list taken from the group of a family and a
\* language.
TakenFrom(s, family, language) ==
    {i \in DOMAIN s : s[i] \in Range(Group(fontDescriptions, family, language))}

\* C23: in the sourceFonts of every package each entry is a descriptor of
\* some group the composer looks up, a group gives at most one entry and a
\* group without descriptors none, and the list is no longer than the count
\* of the primary family's non-empty language groups plus the count of the
\* package's combo families.
C23_LengthBound ==
    \A p \in DOMAIN sourceFonts :
        LET s == sourceFonts[p]
            o == outputFamilies[p]
            combos == Range(o.prependComboFamilies) \cup Range(o.appendComboFamilies)
            looked == {<<o.inputFamily, l>> : l \in Range(languages) \cup {<<>>}}
                          \cup {<<f, <<>>>> : f \in combos}
        IN  /\ \A i \in DOMAIN s : \E k \in looked : i \in TakenFrom(s, k[1], k[2])
            /\ \A f \in DOMAIN fontDescriptions :
                   \A l \in Range(languages) \cup {<<>>} :
                       Cardinality(TakenFrom(s, f, l)) <= 1
            /\ Len(s) <= LengthBound(p)

\* One package is as long as the bound allows, and another, whose primary
\* group of the empty language holds two descriptors, is shorter than it
\* since combo families have no group.
C23_Witness ==
    /\ \E p \in DOMAIN sourceFonts :
          Len(sourceFonts[p]) >= 2 /\ Len(sourceFonts[p]) = LengthBound(p)
    /\ \E p \in DOMAIN sourceFonts :
          /\ Len(Group(fontDescriptions, outputFamilies[p].inputFamily, <<>>)) >= 2
          /\ Len(sourceFonts[p]) >= 2
          /\ Len(sourceFonts[p]) < LengthBound(p)

\* ---------------------------------------------------------------------------
\* The position of a seekBuffer
\* ---------------------------------------------------------------------------

\* The position a Seek call asks for, as a number.
SeekTarget(b, offset, whence) ==
    CASE whence = SeekStart -> offset
      [] whence = SeekEnd -> b.len + offset
      [] whence = SeekCurrent -> b.pos + offset

\* What a Seek call does to the buffer b.
SeekInRange(b, offset, whence) ==
    LET r == SbSeek(b, offset, whence)
        T == SeekTarget(b, offset, whence)
    IN  /\ r.arr = b.arr /\ r.len = b.len
        /\ 0 <= r.pos /\ r.pos <= r.len
        /\ whence = SeekStart /\ offset < 0 => SeekFails(offset, whence) /\ r.pos = b.pos
        /\ ~SeekFails(offset, whence) =>
              /\ 0 <= T /\ T <= b.len => r.pos = T
              /\ T < 0 => r.pos = 0
              /\ T > b.len /\ T <= MaxInt => r.pos = b.len

\* C24: whatever calls of Reset, Write and Seek were made, the position lies
\* between 0 and the length of the buffer; and any Seek made now leaves the
\* contents as they are and the position in that range: at the target when
\* the target is in the range, at 0 when it is below, at the length when it
\* is above and an int, and where it was, with an error returned, when the
\* call is from the start with a negative offset.
C24_PositionInvariant ==
    /\ 0 <= sb.pos /\ sb.pos <= sb.len /\ sb.len <= Len(sb.arr)
    /\ \A off \in SeekOffsets, wh \in Whences : SeekInRange(sb, off, wh)

\* The merge has sought back into the middle of what it wrote; from there a
\* Seek past the end stops at the length, and one whose sum wraps around at 0.
C24_Witness ==
    /\ pc = "merge"
    /\ 0 < sb.pos /\ sb.pos < sb.len
    /\ SbSeek(sb, 9, SeekCurrent).pos = sb.len
    /\ SbSeek(sb, -1, SeekStart) = sb
    /\ SbSeek(sb, MaxInt, SeekCurrent).pos = 0

\* ---------------------------------------------------------------------------
\* A pooled buffer used again
\* ---------------------------------------------------------------------------

\* generateFont has called buf.Reset() for the package at hand.
AfterReset == pc # "acquired"

\* What a Write of p does to the buffer b: the bytes from the position on are
\* those of p, the length is the greater of the old length and the end of
\* what was written, the position is that end, and every other byte of the
\* contents is as before.
WriteInPlace(b, p) ==
    LET r == SbWrite(b, p)
        n == Len(p)
    IN  /\ r.len = Max(b.len, b.pos + n)
        /\ r.pos = b.pos + n
        /\ \A k \in 1 .. r.len :
              BufOf(r)[k] = IF k > b.pos /\ k <= b.pos + n THEN p[k - b.pos]
                            ELSE BufOf(b)[k]

\* C25: once the buffer has been reset, and also when it held the blob of an
\* earlier package, its contents and position are those of a new empty
\* seekBuffer given the same calls of Write and Seek; any Write made now
\* changes the bytes it covers and no other; and the blob generateChunks is
\* given is the contents of that new buffer.
C25_NoLeak ==
    /\ AfterReset => BufOf(sb) = BufOf(fresh) /\ sb.pos = fresh.pos
    /\ pc = "merge" => \A p \in Payloads : WriteInPlace(sb, p)
    /\ pc \in {"gzip", "open", "read", "manifest", "built"} => data = BufOf(fresh)

\* The blob of a second package is handed over from a buffer that keeps
\* bytes of the first past its length, the merge having sought back.
C25_Witness ==
    /\ pc = "gzip"
    /\ pkg = 1
    /\ data = BufOf(sb)
    /\ Len(data) >= 2
    /\ sb.pos < sb.len
    /\ \E k \in (sb.len + 1) .. Len(sb.arr) : sb.arr[k] # 0

====
